---- MODULE Spec2Model ----
(***************************************************************************)
(* Kgcp, the GCP provider adapter of kvirt (kvirt/providers/gcp).          *)
(*                                                                         *)
(* The adapter is single threaded: one public method runs at a time.  pc   *)
(* is the position inside the running method ("idle" between calls), the   *)
(* backend (compute, dns, storage) is the environment: operations complete *)
(* on their own.  Text values are sequences of one-character strings, so   *)
(* that split, replace and "in" are computed as Python computes them.      *)
(*                                                                         *)
(* The backend answers every read truthfully (get, list); a request that   *)
(* mutates is accepted, and then yields an operation, or is rejected, and  *)
(* then execute() raises.                                                  *)
(***************************************************************************)
EXTENDS Integers, Sequences, FiniteSets, TLC

\* ------------------------------------------------------------------ bounds
\* public calls made on one adapter in one behaviour
MaxCalls == 2

\* --------------------------------------------------------- program constants
\* _wait_for_operation: "if timeout > 60: return"
WaitBudget == 60
\* create / add_disk: "if timeout > 60" with "timeout += 5; sleep(5)"
DiskBudget == 60
DiskSleep == 5

\* --------------------------------------------------------------------- text
\* None, told apart from every text (a text is a sequence of characters)
None == <<"None">>

StartsWith(s, p) == Len(s) >= Len(p) /\ SubSeq(s, 1, Len(p)) = p

EndsWith(s, p) == Len(s) >= Len(p) /\ SubSeq(s, Len(s) - Len(p) + 1, Len(s)) = p

\* Python's "sub in s" on str
Contains(s, sub) ==
    \E i \in 1..(Len(s) - Len(sub) + 1) : SubSeq(s, i, i + Len(sub) - 1) = sub

\* Python's s.replace(old, new), old not empty
RECURSIVE Replace(_, _, _)
Replace(s, old, new) ==
    IF s = <<>> THEN <<>>
    ELSE IF StartsWith(s, old)
         THEN new \o Replace(SubSeq(s, Len(old) + 1, Len(s)), old, new)
         ELSE <<Head(s)>> \o Replace(Tail(s), old, new)

\* Python's s.split(sep) for a one-character sep: the sequence of the pieces
RECURSIVE Split(_, _)
Split(s, sep) ==
    IF \A i \in 1..Len(s) : s[i] # sep THEN <<s>>
    ELSE LET k == CHOOSE i \in 1..Len(s) :
                      s[i] = sep /\ \A j \in 1..(i - 1) : s[j] # sep
         IN  <<SubSeq(s, 1, k - 1)>> \o Split(SubSeq(s, k + 1, Len(s)), sep)

\* Python's sep.join(pieces)
RECURSIVE Join(_, _)
Join(pieces, sep) ==
    IF pieces = <<>> THEN <<>>
    ELSE IF Len(pieces) = 1 THEN pieces[1]
    ELSE pieces[1] \o sep \o Join(Tail(pieces), sep)

\* ------------------------------------------------------------------- names
vm1 == <<"v", "m", "1">>
kctl == <<"k", "-", "c", "t", "l", "p", "l", "a", "n", "e", "-", "0">>
VMNames == {vm1, kctl}

default == <<"d", "e", "f", "a", "u", "l", "t">>
net1 == <<"n", "1">>
sub1 == <<"s", "1">>

\* self.project, and self.xproject (the host project of a shared VPC)
project == "project"
xproject == "xproject"

NoLocals == [x \in {} |-> 0]

\* -------------------------------------------------------------------- state
VARIABLES
    instances,  \* compute backend: instance name -> instance resource
    disks,      \* compute backend: disk name -> status
    networks,   \* compute backend: names of the networks
    autoCreateSubnetworks,  \* compute backend: the networks in auto mode
    subnets,    \* compute backend: subnet name -> its project (az) and network
    firewalls,  \* compute backend: names of the firewall rules
    resources,  \* compute backend: <<kind, name>> -> state, for the addresses and
                \* the parts of a load balancer
    zones,      \* dns backend: the managed zones
    records,    \* dns backend: the record sets
    buckets,    \* storage backend: bucket name -> the names of its objects
    pc,         \* position in the running public method, "idle" between calls
    op,         \* the running (or last) public method
    args,       \* its arguments
    locals,     \* its local variables
    rd,         \* locals of reserve_dns
    calls,      \* the backend mutations it issued, in order, with their operations
    w,          \* locals of _wait_for_operation, and the operation it last
                \* returned for (waited)
    result,     \* what the last call returned
    ncalls,     \* number of public calls started
    defaults    \* the default values of the arguments of create: objects made
                \* once, when the class is defined

compute == <<instances, disks>>
network == <<networks, autoCreateSubnetworks, subnets>>
dns == <<zones, records>>
backend == <<compute, network, firewalls, resources, dns, buckets>>
call == <<op, args, ncalls, defaults>>
vars == <<instances, disks, networks, autoCreateSubnetworks, subnets, firewalls,
          resources, zones, records,
          buckets, pc, op, args, locals, rd, calls, w, result, ncalls, defaults>>

\* ------------------------------------------------------------ return values
Success == [result |-> "success"]
Failure(reason) == [result |-> "failure", reason |-> reason]
\* an exception that leaves the public method
Fault == [result |-> "fault"]
\* a return value that is no tagged result (None, an address, ...)
Untagged == [result |-> "untagged"]
NoResult == [result |-> "none"]

Return(r) == pc' = "idle" /\ result' = r

\* -------------------------------------------------- backend calls: mutations
\* request.execute() of a mutating call: the backend accepts it and hands back
\* an operation (RUNNING until the backend finishes it), or rejects it and
\* execute() raises.
Operation(api, target, accepted) ==
    [api |-> api, target |-> target,
     status |-> IF accepted THEN "RUNNING" ELSE "REJECTED"]

Issue(api, target, accepted) == Append(calls, Operation(api, target, accepted))

NoWait == [operation |-> 0, ret |-> "idle", timeout |-> 0, done |-> FALSE,
           slept |-> 0, polls |-> 0, logged |-> FALSE, returned |-> <<>>,
           waited |-> 0]

\* self._wait_for_operation(operation), the caller resuming at ret
Wait(operation, ret) ==
    /\ pc' = "_wait_for_operation"
    /\ w' = [operation |-> operation, ret |-> ret, timeout |-> 0, done |-> FALSE,
             slept |-> 0, polls |-> 0, logged |-> FALSE, returned |-> <<>>,
             waited |-> 0]

\* a public method is entered
Enter(name, a) ==
    /\ pc = "idle"
    /\ ncalls < MaxCalls
    /\ ncalls' = ncalls + 1
    /\ op' = name
    /\ args' = a
    /\ defaults' = defaults

\* ----------------------------------------------------------------- backend
\* the backend finishes an operation
OperationCompletes ==
    /\ \E i \in 1..Len(calls) :
          /\ calls[i].status = "RUNNING"
          /\ calls' = [calls EXCEPT ![i].status = "DONE"]
    /\ UNCHANGED <<backend, call, pc, locals, rd, w, result>>

\* ------------------------------------------------------- _wait_for_operation
\* {zone,region,global}Operations().get(...).execute(): the status of the
\* operation and whether the response embeds an error payload
Checks(operation) ==
    {[status |-> calls[operation].status, httpErrorMessage |-> e] : e \in BOOLEAN}

\* a waiter that would give up at the first error payload
WaitOverOnError == w.done \/ w.timeout > WaitBudget \/ w.logged

\* lines 55-57: "while not done" ends, or "if timeout > 60: return"
WaitOver == w.done \/ w.timeout > WaitBudget

\* a waiter that would tell its caller that it gave up
WaitReturnsTimeout == IF w.done THEN None ELSE <<"timeout">>

\* what the method returns: the bare return of line 57, or the end of the body
WaitReturns == None

\* One turn of "while not done", or the return of the method.
_wait_for_operation ==
    /\ pc = "_wait_for_operation"
    /\ IF WaitOver
       THEN /\ pc' = w.ret
            /\ w' = [NoWait EXCEPT !.returned = WaitReturns,
                                    !.waited = w.operation]
       ELSE /\ \E check \in Checks(w.operation) :
                 w' = [w EXCEPT
                         !.polls = @ + 1,
                         !.done = (check.status = "DONE"),
                         !.slept = IF check.status = "DONE" THEN @ ELSE @ + 1,
                         !.timeout = IF check.status = "DONE" THEN @ ELSE @ + 1,
                         !.logged = @ \/ check.httpErrorMessage]
            /\ pc' = pc
    /\ UNCHANGED <<backend, call, locals, rd, calls, result>>

\* -------------------------------------------------------------- the network
cidr1 == <<"10.0.0.0/24">>
bogus == <<"bogus">>
Cidrs == {None, cidr1, bogus}
\* ip_network(cidr) raises on a malformed cidr
ip_network(cidr) == cidr = cidr1

allow_ssh(name) == <<"a", "l", "l", "o", "w", "-", "s", "s", "h", "-">> \o name

create_network ==
    /\ \E name \in {net1}, cidr \in Cidrs, create_subnet \in BOOLEAN,
          dual_cidr \in Cidrs :
          Enter("create_network",
                [name |-> name, cidr |-> cidr, create_subnet |-> create_subnet,
                 dual_cidr |-> dual_cidr])
    /\ \E accepted \in BOOLEAN :
          /\ accepted => args'.name \notin networks
          /\ calls' = <<Operation("networks.insert", args'.name, accepted)>>
          /\ IF accepted
             THEN /\ networks' = networks \cup {args'.name}
                  /\ autoCreateSubnetworks' =
                        IF args'.cidr = None
                        THEN autoCreateSubnetworks \cup {args'.name}
                        ELSE autoCreateSubnetworks
                  /\ Wait(1, "create_network_subnet")
                  /\ result' = NoResult
             ELSE /\ Return(Fault)
                  /\ UNCHANGED <<networks, autoCreateSubnetworks, w>>
    /\ locals' = NoLocals
    /\ UNCHANGED <<buckets, compute, subnets, firewalls, resources, dns, rd>>

\* "if overrides.get('create_subnet', True)" up to the subnet's insert
create_network_subnet ==
    /\ pc = "create_network_subnet"
    /\ IF args.create_subnet /\ args.cidr # None
       THEN IF ~ip_network(args.cidr)
            THEN /\ Return(Failure(<<"Invalid Cidr">>))
                 /\ UNCHANGED <<subnets, calls, w>>
            ELSE IF args.dual_cidr # None /\ ~ip_network(args.dual_cidr)
            THEN /\ Return(Failure(<<"Invalid Dual Cidr">>))
                 /\ UNCHANGED <<subnets, calls, w>>
            ELSE \E accepted \in BOOLEAN :
                    /\ accepted => args.name \notin DOMAIN subnets
                    /\ calls' = Issue("subnetworks.insert", args.name, accepted)
                    /\ IF accepted
                       THEN /\ subnets' = subnets @@
                                 (args.name :> [az |-> project, network |-> args.name])
                            /\ Wait(Len(calls'), "create_network_firewall")
                            /\ UNCHANGED result
                       ELSE /\ Return(Fault)
                            /\ UNCHANGED <<subnets, w>>
       ELSE /\ pc' = "create_network_firewall"
            /\ UNCHANGED <<subnets, calls, w, result>>
    /\ UNCHANGED <<buckets, compute, networks, autoCreateSubnetworks, firewalls,
                   resources, dns, call, locals, rd>>

\* the allow-ssh rule of the new network, and the return
create_network_firewall ==
    /\ pc = "create_network_firewall"
    /\ \E accepted \in BOOLEAN :
          /\ accepted => allow_ssh(args.name) \notin firewalls
          /\ calls' = Issue("firewalls.insert", allow_ssh(args.name), accepted)
          /\ IF accepted
             THEN /\ firewalls' = firewalls \cup {allow_ssh(args.name)}
                  /\ Return(Success)
             ELSE /\ Return(Fault)
                  /\ UNCHANGED firewalls
    /\ UNCHANGED <<buckets, compute, network, resources, dns, call, locals, rd, w>>

\* a nets entry: a name (str), or a dict with a name and maybe an ip
Net(name) == [kind |-> "str", name |-> name, ip |-> None]

\* ---------------------------------------------------------------------- dns
\* reserve_dns: "while counter != 100" with "sleep(5); counter += 10"
DnsCounterEnd == 100
DnsCounterStep == 10
DnsSleep == 5

\* Kgcp(..., public=True)
public == TRUE

ctlplane == <<"c", "t", "l", "p", "l", "a", "n", "e">>
worker == <<"w", "o", "r", "k", "e", "r">>
star == <<"*">>
ip1 == <<"1.1.1.1">>
ip2 == <<"10.0.0.2">>

\* lines 1073-1077 and 1084-1085 (1144-1148 and 1154-1155 in delete_dns): the
\* cluster, the short name, the zone's domain and the record name
DnsNames(name, domain) ==
    LET fqdn == name \o <<".">> \o domain
        iscluster == Split(fqdn, "-")[1] = Split(fqdn, ".")[2]
        cluster == IF iscluster THEN Split(fqdn, "-")[1] ELSE None
        short == IF iscluster THEN Join(SubSeq(Split(fqdn, "."), 1, 1), <<".">>)
                 ELSE name
        dom == IF iscluster
               THEN Replace(Replace(fqdn, short \o <<".">>, <<>>),
                            cluster \o <<".">>, <<>>)
               ELSE domain
        dnsentry == IF iscluster THEN short \o <<".">> \o cluster ELSE short
    IN  [cluster |-> cluster, name |-> short, domain |-> dom,
         entry |-> dnsentry \o <<".">> \o dom \o <<".">>]

\* a lookup that would take any zone of the project
dnszonesAny(domain) == zones

\* [z for z in client.list_zones() if z.dns_name == f"{domain}." or z.name == domain]
dnszones(domain) ==
    {z \in zones : z.dns_name = domain \o <<".">> \/ z.name = domain}

\* a test that would take every name with a cluster for a node of it
IsClusterAny(cluster, name) == cluster # None

\* line 1086 and 1127
IsClusterNode(cluster, name) ==
    cluster # None /\ (Contains(name, ctlplane) \/ Contains(name, worker))

\* self.internalip(name)
internalip(name) ==
    IF name \notin DOMAIN instances THEN None ELSE instances[name].networkIP

\* self.ip(name)
ip(name) ==
    IF name \notin DOMAIN instances THEN None
    ELSE IF ~public THEN instances[name].networkIP
    ELSE instances[name].natIP

\* the return of reserve_dns: to the caller of the public method, or to the
\* method that called it (which drops the value)
DnsReturn(r) ==
    IF rd.ret = "idle" THEN Return(r) ELSE pc' = rd.ret /\ UNCHANGED result

\* lines 1065-1095: reserve_dns is entered from ret
ReserveDns(name, nets, domain, address, alias, ret) ==
    LET n == DnsNames(name, domain)
        frame == [name |-> n.name, domain |-> n.domain, cluster |-> n.cluster,
                  entry |-> n.entry, nets |-> nets, ip |-> address,
                  alias |-> alias, internalip |-> None, counter |-> 0,
                  slept |-> 0, polls |-> 0, ret |-> ret]
    IN  /\ rd' = IF dnszones(n.domain) = {} THEN NoLocals ELSE frame
        /\ IF dnszones(n.domain) = {}
           THEN IF ret = "idle" THEN Return(Failure(<<"Domain not found">>))
                ELSE pc' = ret /\ UNCHANGED result
           ELSE /\ pc' = IF IsClusterNode(n.cluster, n.name)
                         THEN "reserve_dns_internalip" ELSE "reserve_dns_address"
                /\ result' = IF ret = "idle" THEN NoResult ELSE result

\* lines 1088-1095: one turn of the wait for the internal address
reserve_dns_internalip ==
    /\ pc = "reserve_dns_internalip"
    /\ IF rd.counter = DnsCounterEnd
       THEN /\ pc' = "reserve_dns_address"
            /\ UNCHANGED rd
       ELSE IF internalip(rd.name) = None
       THEN /\ pc' = pc
            /\ rd' = [rd EXCEPT !.counter = @ + DnsCounterStep,
                                !.slept = @ + DnsSleep, !.polls = @ + 1]
       ELSE /\ pc' = "reserve_dns_address"
            /\ rd' = [rd EXCEPT !.internalip = internalip(rd.name), !.polls = @ + 1]
    /\ UNCHANGED <<backend, call, locals, calls, w, result>>

\* lines 1096-1101: the address given by the caller or by nets[0]
reserve_dns_address ==
    /\ pc = "reserve_dns_address"
    /\ IF rd.ip # None
       THEN /\ pc' = "reserve_dns_changes"
            /\ UNCHANGED <<rd, result>>
       ELSE IF rd.nets = <<>>
       THEN \* nets[0] raises IndexError
            /\ Return(Fault)
            /\ UNCHANGED rd
       ELSE IF rd.nets[1].kind = "dict" /\ rd.nets[1].ip # None
       THEN /\ pc' = "reserve_dns_changes"
            /\ rd' = [rd EXCEPT !.ip = rd.nets[1].ip]
            /\ UNCHANGED result
       ELSE /\ pc' = "reserve_dns_ip"
            /\ rd' = [rd EXCEPT !.counter = 0, !.slept = 0, !.polls = 0]
            /\ UNCHANGED result
    /\ UNCHANGED <<backend, call, locals, calls, w>>

\* lines 1102-1116: one turn of the wait for the public address, which is
\* reserved once it is there
reserve_dns_ip ==
    /\ pc = "reserve_dns_ip"
    /\ IF rd.counter = DnsCounterEnd
       THEN /\ pc' = "reserve_dns_changes"
            /\ UNCHANGED <<rd, calls, resources, result>>
       ELSE IF ip(rd.name) = None
       THEN /\ pc' = pc
            /\ rd' = [rd EXCEPT !.counter = @ + DnsCounterStep,
                                !.slept = @ + DnsSleep, !.polls = @ + 1]
            /\ UNCHANGED <<calls, resources, result>>
       ELSE \E reserved \in BOOLEAN, updated \in BOOLEAN :
               /\ reserved => <<"addresses", rd.name>> \notin DOMAIN resources
               /\ ~reserved => ~updated
               /\ rd' = [rd EXCEPT !.ip = ip(rd.name), !.polls = @ + 1]
               /\ calls' =
                    IF reserved
                    THEN calls \o <<Operation("addresses.insert", rd.name, TRUE),
                                    Operation("instances.updateAccessConfig",
                                              rd.name, updated)>>
                    ELSE Issue("addresses.insert", rd.name, FALSE)
               /\ resources' = IF reserved
                               THEN resources @@ (<<"addresses", rd.name>> :>
                                                      [state |-> "READY",
                                                       domain |-> None,
                                                       dnsclient |-> None,
                                                       group |-> None,
                                                       members |-> {}])
                               ELSE resources
               /\ IF reserved /\ updated
                  THEN pc' = "reserve_dns_changes" /\ UNCHANGED result
                  ELSE Return(Fault)
    /\ UNCHANGED <<buckets, compute, network, firewalls, dns, call, locals, w>>

\* lines 1124-1135: the alias records
AliasRecord(a) ==
    IF a = star
    THEN [name |-> IF IsClusterNode(rd.cluster, rd.name)
                   THEN <<"*", ".", "a", "p", "p", "s", ".">> \o rd.cluster
                        \o <<".">> \o rd.domain \o <<".">>
                   ELSE <<"*", ".">> \o rd.name \o <<".">> \o rd.domain \o <<".">>,
          type |-> "A", rrdatas |-> <<rd.ip>>]
    ELSE [name |-> IF Contains(a, <<".">>) THEN a \o <<".">>
                   ELSE a \o <<".">> \o rd.domain \o <<".">>,
          type |-> "CNAME", rrdatas |-> <<rd.entry>>]

\* a change set that would leave the alias records out
ChangesNoAlias ==
    {[name |-> rd.entry, type |-> "A",
      rrdatas |-> <<IF rd.internalip = None THEN rd.ip ELSE rd.internalip>>]}

\* lines 1120-1123: the change set of reserve_dns
Changes ==
    {[name |-> rd.entry, type |-> "A",
      rrdatas |-> <<IF rd.internalip = None THEN rd.ip ELSE rd.internalip>>]}
    \cup {AliasRecord(rd.alias[i]) : i \in 1..Len(rd.alias)}

\* lines 1117-1137: the record sets are submitted in one change set, and
\* reserve_dns returns
reserve_dns_changes ==
    /\ pc = "reserve_dns_changes"
    /\ IF rd.ip = None
       THEN \* "Couldn't assign DNS": a bare return
            /\ DnsReturn(Untagged)
            /\ UNCHANGED <<calls, records>>
       ELSE \E accepted \in BOOLEAN :
               /\ accepted => \A r \in Changes :
                                 \A x \in records : x.name # r.name \/ x.type # r.type
               /\ calls' = Append(calls,
                     [api |-> "changes.create", target |-> Changes,
                      status |-> IF accepted THEN "DONE" ELSE "REJECTED"])
               /\ IF accepted
                  THEN /\ records' = records \cup Changes
                       /\ DnsReturn(Success)
                  ELSE /\ Return(Fault)
                       /\ UNCHANGED records
    /\ rd' = NoLocals
    /\ UNCHANGED <<buckets, compute, network, firewalls, resources, zones, call, locals, w>>

\* a node of the cluster k that is neither a ctlplane nor a worker
knode == <<"k", "-", "n", "o", "d", "e", "-", "0">>

DnsVMNames == VMNames \cup {knode}

\* the domain argument: the zone x, with the label of the cluster k, and under
\* a subdomain ok
Domains == {<<"x">>, <<"k", ".", "x">>, <<"k", ".", "o", "k", ".", "x">>}

www == <<"w", "w", "w">>
Aliases == {<<>>, <<star, www>>}

ReserveArgs ==
    {[name |-> n, nets |-> nets, domain |-> d, ip |-> a, alias |-> al] :
        n \in DnsVMNames, nets \in {<<>>, <<Net(default)>>},
        d \in Domains, a \in {None, ip1}, al \in Aliases}

reserve_dns ==
    /\ \E a \in ReserveArgs : Enter("reserve_dns", a)
    /\ ReserveDns(args'.name, args'.nets, args'.domain, args'.ip, args'.alias, "idle")
    /\ calls' = <<>>
    /\ w' = NoWait
    /\ locals' = NoLocals
    /\ UNCHANGED backend

\* ------------------------------------------------------------------ create
\* str(n) for n >= 0
RECURSIVE Digits(_)
Digits(n) ==
    LET d == <<"0", "1", "2", "3", "4", "5", "6", "7", "8", "9">>
    IN  IF n < 10 THEN <<d[n + 1]>> ELSE Digits(n \div 10) \o <<d[(n % 10) + 1]>>

custom == <<"c", "u", "s", "t", "o", "m">>
f1_micro == <<"f", "1", "-", "m", "i", "c", "r", "o">>
e2_small == <<"e", "2", "-", "s", "m", "a", "l", "l">>

\* f"zones/{zone}/machineTypes/{machine_type}"
machineTypes(machine_type) ==
    <<"zones", "/", "zone", "/", "machineTypes", "/">> \o machine_type

\* os.path.basename(path)
basename(path) == LET pieces == Split(path, "/") IN pieces[Len(pieces)]

\* an existence probe that would find nothing
existsNever(name) == FALSE

\* self.exists(name): instances().get raises for an unknown instance
exists(name) == name \in DOMAIN instances

\* a shape check that would take any multiple of 512 as memory
ShapeLax(flavor, numcpus, memory) ==
    IF flavor = None
    THEN IF numcpus # 1 /\ numcpus % 2 # 0
         THEN [reason |-> <<"Number of cpus is not even">>]
         ELSE IF memory % 512 # 0
         THEN [reason |-> <<"Memory is not multiple of 1024">>]
         ELSE LET mem == IF numcpus > 1 /\ memory < 2048 THEN 2048 ELSE memory
              IN  [reason |-> None,
                   machine_type |->
                       IF mem * 10 < 9216 THEN f1_micro
                       ELSE custom \o <<"-">> \o Digits(numcpus) \o <<"-">> \o Digits(mem)]
    ELSE [reason |-> None, machine_type |-> flavor]

\* a shape that would keep the memory of an instance with several cpus
ShapeNoFloor(flavor, numcpus, memory) ==
    IF flavor = None
    THEN IF numcpus # 1 /\ numcpus % 2 # 0
         THEN [reason |-> <<"Number of cpus is not even">>]
         ELSE IF memory # 512 /\ memory % 1024 # 0
         THEN [reason |-> <<"Memory is not multiple of 1024">>]
         ELSE [reason |-> None,
               machine_type |->
                   IF memory * 10 < 9216 THEN f1_micro
                   ELSE custom \o <<"-">> \o Digits(numcpus) \o <<"-">> \o Digits(memory)]
    ELSE [reason |-> None, machine_type |-> flavor]

\* lines 116-129 of create: the shape check and the machine type; a record with
\* the failure reason, or with the machine type
Shape(flavor, numcpus, memory) ==
    IF flavor = None
    THEN IF numcpus # 1 /\ numcpus % 2 # 0
         THEN [reason |-> <<"Number of cpus is not even">>]
         ELSE IF memory # 512 /\ memory % 1024 # 0
         THEN [reason |-> <<"Memory is not multiple of 1024">>]
         ELSE LET mem == IF numcpus > 1 /\ memory < 2048 THEN 2048 ELSE memory
              IN  [reason |-> None,
                   machine_type |->
                       IF mem * 10 < 9216 THEN f1_micro
                       ELSE custom \o <<"-">> \o Digits(numcpus) \o <<"-">> \o Digits(mem)]
    ELSE [reason |-> None, machine_type |-> flavor]

\* lines 177-185: the entry resolves to a subnet, else to a network, else fails
Resolves(net) == net.name \in DOMAIN subnets \/ net.name \in networks

\* a resolution that would look at the first entry only
UnresolvedFirst(nets) == {i \in 1..Len(nets) : i = 1 /\ ~Resolves(nets[i])}

Unresolved(nets) == {i \in 1..Len(nets) : ~Resolves(nets[i])}

\* lines 178-180: some entry names a subnet of the shared VPC's host project
UseXproject(nets) ==
    \E i \in 1..Len(nets) :
        nets[i].name \in DOMAIN subnets /\ subnets[nets[i].name].az = xproject

NoMetadata == [kubetype |-> None, kube |-> None, domain |-> None, dnsclient |-> None]

\* lines 252-254: the labels of the new instance, '.' replaced by '-'
Labels(metadata) ==
    [k \in DOMAIN metadata |->
        IF metadata[k] = None THEN None ELSE Replace(metadata[k], <<".">>, <<"-">>)]

\* name-disk<index>
diskname(name, index) == name \o <<"-", "d", "i", "s", "k">> \o Digits(index)

kube1 == <<"k">>
generic == <<"g", "e", "n", "e", "r", "i", "c">>
\* line 308: kubetype in ["generic", "openshift", "k3s"]
KubeTypes == {generic, <<"openshift">>, <<"k3s">>}
domain1 == <<"k", ".", "x">>

rhel8 == <<"rhel-8">>
myimage == <<"myimage">>
noimage == <<"noimage">>
Images == {None, rhel8, myimage, noimage}
\* images of public projects are looked up by family, the others in self.project
image_project(image) == IF image = rhel8 THEN <<"rhel-cloud">> ELSE None
ProjectImages == {myimage}

\* line 105, files=[] and tags=[]: the argument is left out, or given
Omitted == [explicit |-> FALSE, items |-> <<>>]
Given(items) == [explicit |-> TRUE, items |-> items]

\* the list a parameter is bound to: the one given, or the default value,
\* which is one and the same object in every call
Bound(arg, kept) == IF arg.explicit THEN arg.items ELSE kept

BaseCreate ==
    [name |-> vm1, flavor |-> None, numcpus |-> 2, memory |-> 2048,
     nets |-> <<Net(default)>>, disks |-> <<10>>, image |-> rhel8,
     cloudinit |-> TRUE, reservedns |-> FALSE, domain |-> None, alias |-> <<>>,
     metadata |-> NoMetadata, files |-> Omitted, tags |-> Omitted]

Cpus == 0..5
Memories == {0, 256, 512, 1000, 1024, 1536, 2048, 3072}

ShapeArgs ==
    {[BaseCreate EXCEPT !.name = n, !.flavor = f, !.numcpus = c, !.memory = m] :
        n \in VMNames, f \in {None}, c \in Cpus, m \in Memories}
    \cup {[BaseCreate EXCEPT !.name = n, !.flavor = e2_small, !.numcpus = 3] :
             n \in VMNames}

NetLists ==
    {<<>>, <<Net(default)>>, <<Net(sub1)>>, <<Net(net1)>>,
     <<Net(default), Net(net1)>>, <<Net(net1), Net(default)>>,
     <<Net(sub1), Net(default)>>}

DiskLists == {<<>>, <<10>>, <<10, 20>>}

NetArgs ==
    {[BaseCreate EXCEPT !.name = v, !.nets = n, !.disks = d] :
        v \in VMNames, n \in NetLists, d \in DiskLists}

DiskArgs ==
    {[BaseCreate EXCEPT !.disks = d, !.image = i, !.cloudinit = c] :
        d \in DiskLists, i \in Images, c \in BOOLEAN}

KubeArgs ==
    {[BaseCreate EXCEPT !.name = n,
                        !.metadata = [NoMetadata EXCEPT !.kubetype = generic,
                                                        !.kube = kube1]] :
        n \in VMNames}

DnsArgs ==
    {[BaseCreate EXCEPT !.name = n, !.reservedns = TRUE, !.domain = domain1,
                        !.metadata = [NoMetadata EXCEPT !.domain = domain1]] :
        n \in VMNames}

CreateArgs == NetArgs \cup DiskArgs

\* lines 113-200: the existence probe, the shape, the network interfaces
Create(Args) ==
    /\ \E a \in Args : Enter("create", a)
    /\ calls' = <<>>
    /\ w' = NoWait
    /\ LET shape == Shape(args'.flavor, args'.numcpus, args'.memory) IN
       IF exists(args'.name)
       THEN /\ Return(Failure(<<"already exists">>))
            /\ locals' = NoLocals
       ELSE IF shape.reason # None
       THEN /\ Return(Failure(shape.reason))
            /\ locals' = NoLocals
       ELSE IF Unresolved(args'.nets) # {}
       THEN /\ Return(Failure(<<"not in subnets nor in networks">>))
            /\ locals' = NoLocals
       ELSE /\ pc' = "create_disk"
            /\ result' = NoResult
            /\ locals' = [machine_type |-> machineTypes(shape.machine_type),
                          use_xproject |-> UseXproject(args'.nets),
                          index |-> 0, timeout |-> 0, files |-> <<>>]
    /\ UNCHANGED <<backend, rd>>

create == Create(CreateArgs)

\* create of a cluster node with two data disks and its DNS records
LiveArgs ==
    {[BaseCreate EXCEPT !.name = kctl, !.disks = <<10, 20>>, !.reservedns = TRUE,
                        !.domain = domain1,
                        !.metadata = [NoMetadata EXCEPT !.domain = domain1]]}

create_node == Create(LiveArgs)

\* create of a node of the cluster k with a data disk
ClusterArgs ==
    {[BaseCreate EXCEPT !.name = knode, !.disks = <<10, 20>>,
                        !.metadata = [NoMetadata EXCEPT !.kubetype = generic,
                                                        !.kube = kube1]]}

create_cluster == Create(ClusterArgs)

\* create of the nodes of the cluster k, generic or openshift, files and tags
\* left out or given as []
KubeTagArgs ==
    {[a EXCEPT !.tags = t, !.files = t, !.metadata.kubetype = k] :
        a \in KubeArgs, t \in {Omitted, Given(<<>>)},
        k \in {generic, <<"openshift">>}}

create_kube == Create(KubeTagArgs)

\* dnsinfo, lines 515-530: the dnsclient and the domain read from the labels of
\* the instance, '-' replaced by '.' in the domain (as delete does, line 660)
dnsinfo(name) ==
    IF name \notin DOMAIN instances THEN [dnsclient |-> None, domain |-> None]
    ELSE LET labels == instances[name].labels
         IN  [dnsclient |-> labels.dnsclient,
              domain |-> IF labels.domain = None THEN None
                         ELSE Replace(labels.domain, <<"-">>, <<".">>)]

\* a domain with a hyphen, and its zone
a_b_x == <<"a", "-", "b", ".", "x">>
zone_a_b_x == [name |-> <<"a-b-x">>, dns_name |-> a_b_x \o <<".">>]

\* create of vm1 with its record in the zone x or in the zone a-b.x
LabelArgs ==
    {[BaseCreate EXCEPT !.reservedns = TRUE, !.domain = d,
                        !.metadata = [NoMetadata EXCEPT !.domain = d]] :
        d \in {<<"x">>, a_b_x}}

create_label == Create(LabelArgs)

\* create with reservedns, in the domain of the zone x or in a domain that no
\* zone serves
NoZoneArgs ==
    {[BaseCreate EXCEPT !.name = n, !.reservedns = TRUE, !.domain = <<"y">>,
                        !.metadata = [NoMetadata EXCEPT !.domain = <<"y">>]] :
        n \in VMNames}

create_dns == Create(DnsArgs \cup NoZoneArgs)

\* create, called with every shape
create_shape == Create(ShapeArgs)

\* lines 202-246: one turn of "for index, disk in enumerate(disks)" up to the
\* insert of a data disk
create_disk ==
    /\ pc = "create_disk"
    /\ IF locals.index = Len(args.disks)
       THEN /\ pc' = "create_firewall"
            /\ UNCHANGED <<disks, locals, calls, result>>
       ELSE IF locals.index = 0 /\ args.image # None
       THEN \* the boot disk: the image is looked up
            IF image_project(args.image) = None /\ args.image \notin ProjectImages
            THEN /\ Return(Failure(<<"Issue with image">>))
                 /\ UNCHANGED <<disks, locals, calls>>
            ELSE /\ pc' = "create_disk"
                 /\ locals' = [locals EXCEPT !.index = @ + 1]
                 /\ UNCHANGED <<disks, calls, result>>
       ELSE \* a data disk: conn.disks().insert
            \E accepted \in BOOLEAN :
               LET d == diskname(args.name, locals.index) IN
               /\ accepted => d \notin DOMAIN disks
               /\ calls' = Issue("disks.insert", d, accepted)
               /\ IF accepted
                  THEN /\ disks' = disks @@ (d :> "CREATING")
                       /\ pc' = "create_disk_ready"
                       /\ locals' = [locals EXCEPT !.timeout = 0]
                       /\ UNCHANGED result
                  ELSE /\ Return(Fault)
                       /\ UNCHANGED <<disks, locals>>
    /\ UNCHANGED <<buckets, instances, network, firewalls, resources, dns, call, rd, w>>

\* a loop that would sleep without counting
DiskTickStuck(timeout) == timeout

\* lines 242-243 (and 806-807 of add_disk): "timeout += 5", around sleep(5)
DiskTick(timeout) == timeout + DiskSleep

\* a wait for the data disk that would go on whatever the status of the disk
create_disk_ready_unseen ==
    /\ pc = "create_disk_ready"
    /\ IF locals.timeout > DiskBudget
       THEN /\ Return(Failure(<<"timeout waiting for disk to be ready">>))
            /\ UNCHANGED locals
       ELSE /\ pc' = "create_disk"
            /\ locals' = [locals EXCEPT !.index = @ + 1, !.timeout = 0]
            /\ UNCHANGED result
    /\ UNCHANGED <<backend, call, rd, calls, w>>

\* lines 235-244: one turn of the wait for the data disk
create_disk_ready ==
    /\ pc = "create_disk_ready"
    /\ IF locals.timeout > DiskBudget
       THEN /\ Return(Failure(<<"timeout waiting for disk to be ready">>))
            /\ UNCHANGED locals
       ELSE IF disks[diskname(args.name, locals.index)] = "READY"
       THEN \* break; timeout is set to 0 before it is read again
            /\ pc' = "create_disk"
            /\ locals' = [locals EXCEPT !.index = @ + 1, !.timeout = 0]
            /\ UNCHANGED result
       ELSE /\ pc' = pc
            /\ locals' = [locals EXCEPT !.timeout = DiskTick(@)]
            /\ UNCHANGED result
    /\ UNCHANGED <<backend, call, rd, calls, w>>

\* line 274: need_gcp_hack
need_gcp_hack == args.metadata.kubetype = <<"openshift">> /\ Contains(args.name, ctlplane)

\* lines 278-280: the two files of the hack
HackFiles == <<<<"gcp-hack.sh">>, <<"gcp-hack.service">>>>

\* lines 105, 275-280: files.append(...) on the list files is bound to
Files ==
    LET files == Bound(args.files, defaults.files)
        appended == IF need_gcp_hack THEN files \o HackFiles ELSE files
    IN  [files |-> appended,
         defaults |-> IF args.files.explicit THEN defaults
                      ELSE [defaults EXCEPT !.files = appended]]

\* a create that would insert the firewall rule of the cluster without looking
\* at the rules that exist
create_firewall_unlisted ==
    /\ pc = "create_firewall"
    /\ locals' = [locals EXCEPT !.files = Files.files]
    /\ defaults' = Files.defaults
    /\ IF args.cloudinit /\ args.image = None
       THEN /\ Return(Fault)
            /\ UNCHANGED <<firewalls, calls, w>>
       ELSE IF args.metadata.kubetype \in KubeTypes /\ ~locals.use_xproject
       THEN /\ calls' = Issue("firewalls.insert", args.metadata.kube, TRUE)
            /\ firewalls' = firewalls \cup {args.metadata.kube}
            /\ Wait(Len(calls'), "create_insert")
            /\ UNCHANGED result
       ELSE /\ pc' = "create_insert"
            /\ UNCHANGED <<firewalls, calls, w, result>>
    /\ UNCHANGED <<buckets, compute, network, resources, dns, op, args, ncalls, rd>>

\* lines 247-325: the files, metadata and user data, and the firewall rule of
\* the cluster
create_firewall ==
    /\ pc = "create_firewall"
    /\ locals' = [locals EXCEPT !.files = Files.files]
    /\ defaults' = Files.defaults
    /\ IF args.cloudinit /\ args.image = None
       THEN \* line 293, image.lower() on None
            /\ Return(Fault)
            /\ UNCHANGED <<firewalls, calls, w>>
       ELSE IF /\ args.metadata.kubetype \in KubeTypes
               /\ ~locals.use_xproject
               /\ args.metadata.kube \notin firewalls
       THEN \E accepted \in BOOLEAN :
               /\ calls' = Issue("firewalls.insert", args.metadata.kube, accepted)
               /\ IF accepted
                  THEN /\ firewalls' = firewalls \cup {args.metadata.kube}
                       /\ Wait(Len(calls'), "create_insert")
                       /\ UNCHANGED result
                  ELSE /\ Return(Fault)
                       /\ UNCHANGED <<firewalls, w>>
       ELSE /\ pc' = "create_insert"
            /\ UNCHANGED <<firewalls, calls, w, result>>
    /\ UNCHANGED <<buckets, compute, network, resources, dns, op, args, ncalls, rd>>

\* the instance resource the backend creates from the body
NewInstance(machine_type, labels, ndisks) ==
    [status |-> "PROVISIONING", machineType |-> machine_type, labels |-> labels,
     networkIP |-> None, natIP |-> None, ndisks |-> ndisks]

\* line 308: the instance is a node of a cluster whose rule the adapter keeps
Kubed == args.metadata.kubetype \in KubeTypes /\ ~locals.use_xproject

\* lines 105, 326: tags.extend([kube]) on the list tags is bound to
Tags ==
    LET tags == Bound(args.tags, defaults.tags)
        extended == IF Kubed THEN Append(tags, args.metadata.kube) ELSE tags
    IN  [tags |-> extended,
         defaults |-> IF args.tags.explicit THEN defaults
                      ELSE [defaults EXCEPT !.tags = extended]]

\* the part of the body that is made from the lists: body['tags'] and the
\* files of the user data
Body ==
    [name |-> args.name, machineType |-> locals.machine_type, tags |-> Tags.tags,
     files |-> IF args.cloudinit THEN locals.files ELSE <<>>]

\* an insert that would, when refused, take back the firewall rule of the
\* cluster
create_insert_rollback ==
    /\ pc = "create_insert"
    /\ defaults' = Tags.defaults
    /\ \E accepted \in BOOLEAN :
          /\ accepted => args.nets # <<>>
          /\ IF accepted
             THEN /\ calls' = Append(calls,
                        [Operation("instances.insert", args.name, accepted)
                           EXCEPT !.target = Body])
                  /\ instances' = instances @@
                        (args.name :> NewInstance(locals.machine_type,
                                                  Labels(args.metadata),
                                                  Len(args.disks)))
                  /\ IF args.reservedns /\ args.domain # None
                     THEN ReserveDns(args.name, args.nets, args.domain, None,
                                     args.alias, "create_return")
                     ELSE Return(Success) /\ UNCHANGED rd
                  /\ UNCHANGED firewalls
             ELSE /\ calls' = calls \o
                        <<[Operation("instances.insert", args.name, accepted)
                             EXCEPT !.target = Body],
                          Operation("firewalls.delete", args.metadata.kube, TRUE)>>
                  /\ firewalls' = firewalls \ {args.metadata.kube}
                  /\ Return(Failure(<<"str(e)">>))
                  /\ UNCHANGED <<instances, rd>>
    /\ UNCHANGED <<buckets, disks, network, resources, dns, op, args, ncalls,
                   locals, w>>

\* lines 325-374: the tags, conn.instances().insert in its try, and the return
create_insert ==
    /\ pc = "create_insert"
    /\ defaults' = Tags.defaults
    /\ \E accepted \in BOOLEAN :
          /\ accepted => args.nets # <<>>
          /\ calls' = Append(calls,
                 [Operation("instances.insert", args.name, accepted)
                    EXCEPT !.target = Body])
          /\ IF accepted
             THEN /\ instances' = instances @@
                        (args.name :> NewInstance(locals.machine_type,
                                                  Labels(args.metadata),
                                                  Len(args.disks)))
                  /\ IF args.reservedns /\ args.domain # None
                     THEN ReserveDns(args.name, args.nets, args.domain, None,
                                     args.alias, "create_return")
                     ELSE Return(Success) /\ UNCHANGED rd
             ELSE /\ Return(Failure(<<"str(e)">>))
                  /\ UNCHANGED <<instances, rd>>
    /\ UNCHANGED <<buckets, disks, network, firewalls, resources, dns, op, args,
                   ncalls, locals, w>>

\* a return that would report the record that was not made
create_return_checked ==
    /\ pc = "create_return"
    /\ Return(IF \E i \in 1..Len(calls) : calls[i].api = "changes.create"
              THEN Success ELSE Failure(<<"Couldn't assign DNS">>))
    /\ UNCHANGED <<backend, call, locals, rd, calls, w>>

\* line 374, after reserve_dns returned (its value is dropped)
create_return ==
    /\ pc = "create_return"
    /\ Return(Success)
    /\ UNCHANGED <<backend, call, locals, rd, calls, w>>

\* the backend starts an instance, which gets its addresses
InstanceRuns ==
    /\ \E n \in DOMAIN instances :
          /\ instances[n].status = "PROVISIONING"
          /\ instances' = [instances EXCEPT ![n].status = "RUNNING",
                                            ![n].networkIP = ip2,
                                            ![n].natIP = ip1]
    /\ UNCHANGED <<buckets, disks, network, firewalls, resources, dns,
                   call, pc, locals, rd, calls, w, result>>

\* the backend makes a data disk ready
DiskReady ==
    /\ \E d \in DOMAIN disks :
          /\ disks[d] = "CREATING"
          /\ disks' = [disks EXCEPT ![d] = "READY"]
    /\ UNCHANGED <<buckets, instances, network, firewalls, resources, dns,
                   call, pc, locals, rd, calls, w, result>>

\* ------------------------------------------------------------------- start
\* lines 376-384: instances().start(...).execute() hands back an operation, or
\* raises (the instance is missing, or the backend refuses); the operation is
\* not waited for
start ==
    /\ \E name \in VMNames : Enter("start", [name |-> name])
    /\ \E accepted \in BOOLEAN :
          /\ accepted => args'.name \in DOMAIN instances
          /\ calls' = <<Operation("instances.start", args'.name, accepted)>>
          /\ IF accepted
             THEN /\ instances' =
                       [instances EXCEPT ![args'.name].status =
                           IF @ = "TERMINATED" THEN "PROVISIONING" ELSE @]
                  /\ Return(Success)
             ELSE /\ Return(Fault)
                  /\ UNCHANGED instances
    /\ w' = NoWait
    /\ locals' = NoLocals
    /\ UNCHANGED <<buckets, disks, network, firewalls, resources, dns, rd>>

\* ------------------------------------------------------------------ resize
\* f"https://www.googleapis.com/compute/v1/projects/{project}/zones/{zone}/machineTypes/{flavor}"
machineTypeUrl(machine_type) ==
    <<"https:", "/", "/", "www.googleapis.com", "/", "compute", "/", "v1", "/",
      "projects", "/", "project", "/", "zones", "/", "zone", "/",
      "machineTypes", "/">> \o machine_type

\* a value a caller passes as memory or numcpus: an int (t = "int", v its
\* decimal digits), or a str (t = "str", v the text)
Int_(n) == [t |-> "int", v |-> Digits(n)]
Str_(n) == [t |-> "str", v |-> Digits(n)]
\* Python's ==: an int never equals a str
PyEq(a, b) == a.t = b.t /\ a.v = b.v
\* the value in an f-string
Fmt(a) == a.v

n2_custom == <<"n", "2", "-">> \o custom \o <<"-", "2", "-", "4", "0", "9", "6">>
custom_2_2048 == custom \o <<"-", "2", "-", "2", "0", "4", "8">>

Flavors == {e2_small, f1_micro, custom_2_2048}

\* a status check that would let a stopping instance through
UpRunning(name) == instances[name].status = "RUNNING"

\* lines 707, 728 and 753: "if vm['status'] in ['RUNNING', 'STOPPING']"
Up(name) == instances[name].status \in {"RUNNING", "STOPPING"}

update_flavor ==
    /\ \E name \in VMNames, flavor \in Flavors :
          Enter("update_flavor", [name |-> name, flavor |-> flavor])
    /\ LET name == args'.name IN
       IF name \notin DOMAIN instances
       THEN /\ Return(Failure(<<"not found">>))
            /\ UNCHANGED instances
            /\ calls' = <<>>
       ELSE IF Up(name)
       THEN /\ Return(Failure(<<"up">>))
            /\ UNCHANGED instances
            /\ calls' = <<>>
       ELSE IF basename(instances[name].machineType) = args'.flavor
       THEN /\ Return(Success)
            /\ UNCHANGED instances
            /\ calls' = <<>>
       ELSE \E accepted \in BOOLEAN :
               /\ calls' = <<Operation("instances.setMachineType",
                                       [name |-> name,
                                        machineType |-> machineTypeUrl(args'.flavor)],
                                       accepted)>>
               /\ IF accepted
                  THEN /\ instances' = [instances EXCEPT ![name].machineType =
                                                    machineTypeUrl(args'.flavor)]
                       /\ Return(Success)
                  ELSE /\ Return(Fault)
                       /\ UNCHANGED instances
    /\ w' = NoWait
    /\ locals' = NoLocals
    /\ UNCHANGED <<buckets, disks, network, firewalls, resources, dns, rd>>

\* a resize that would not look for "custom" in the machine type
ReshapeAny(name, which, requested) ==
    LET pieces == Split(basename(instances[name].machineType), "-")
        requests == Len(pieces) = 3 /\ ~PyEq(requested, [t |-> "str", v |-> pieces[3]])
    IN  /\ calls' = IF requests
                    THEN <<Operation("instances.setMachineType",
                                     [name |-> name,
                                      machineType |-> machineTypeUrl(custom)], TRUE)>>
                    ELSE <<>>
        /\ IF Len(pieces) = 3 THEN Return(Success) ELSE Return(Fault)
        /\ UNCHANGED instances

\* update_memory and update_cpus after the status check: lines 731-742 and
\* 756-767, where requested is the new memory (which = "memory") or the new
\* number of cpus (which = "cpus")
Reshape(name, which, requested) ==
    LET machinetype == basename(instances[name].machineType)
        pieces == Split(machinetype, "-")
    IN  IF ~Contains(machinetype, custom)
        THEN \* the warning
             /\ Return(Success)
             /\ UNCHANGED instances
             /\ calls' = <<>>
        ELSE IF Len(pieces) # 3
        THEN \* "currentcpus, currentmemory = ..." does not unpack
             /\ Return(Fault)
             /\ UNCHANGED instances
             /\ calls' = <<>>
        ELSE LET currentcpus == [t |-> "str", v |-> pieces[2]]
                 currentmemory == [t |-> "str", v |-> pieces[3]]
                 current == IF which = "memory" THEN currentmemory ELSE currentcpus
                 new == IF which = "memory"
                        THEN custom \o <<"-">> \o Fmt(currentcpus) \o <<"-">>
                             \o Fmt(requested)
                        ELSE custom \o <<"-">> \o Fmt(requested) \o <<"-">>
                             \o Fmt(currentmemory)
             IN  IF PyEq(requested, current)
                 THEN /\ Return(Success)
                      /\ UNCHANGED instances
                      /\ calls' = <<>>
                 ELSE \E accepted \in BOOLEAN :
                         /\ calls' = <<Operation("instances.setMachineType",
                                           [name |-> name,
                                            machineType |-> machineTypeUrl(new)],
                                           accepted)>>
                         /\ IF accepted
                            THEN /\ instances' =
                                      [instances EXCEPT ![name].machineType =
                                                            machineTypeUrl(new)]
                                 /\ Return(Success)
                            ELSE /\ Return(Fault)
                                 /\ UNCHANGED instances

\* lines 723-730 and 748-755, then the above
Update(method, which, requested) ==
    /\ \E name \in VMNames :
          Enter(method, [name |-> name, requested |-> requested])
    /\ LET name == args'.name IN
       IF name \notin DOMAIN instances
       THEN /\ Return(Failure(<<"not found">>))
            /\ UNCHANGED instances
            /\ calls' = <<>>
       ELSE IF Up(name)
       THEN /\ Return(Failure(<<"up">>))
            /\ UNCHANGED instances
            /\ calls' = <<>>
       ELSE Reshape(name, which, requested)
    /\ w' = NoWait
    /\ locals' = NoLocals
    /\ UNCHANGED <<buckets, disks, network, firewalls, resources, dns, rd>>

RequestedMemory == {Int_(2048), Str_(2048), Int_(4096)}
RequestedCpus == {Int_(2), Str_(2), Int_(4)}

update_memory == \E memory \in RequestedMemory : Update("update_memory", "memory", memory)

update_cpus == \E numcpus \in RequestedCpus : Update("update_cpus", "cpus", numcpus)

\* ---------------------------------------------------------------- add_disk
\* lines 790-797: the instance is looked up and the new disk inserted
add_disk ==
    /\ \E name \in {vm1} : Enter("add_disk", [name |-> name, size |-> 10])
    /\ w' = NoWait
    /\ IF args'.name \notin DOMAIN instances
       THEN /\ Return(Failure(<<"not found">>))
            /\ calls' = <<>>
            /\ locals' = NoLocals
            /\ UNCHANGED disks
       ELSE LET d == diskname(args'.name, instances[args'.name].ndisks + 1) IN
            \E accepted \in BOOLEAN :
               /\ accepted => d \notin DOMAIN disks
               /\ calls' = <<Operation("disks.insert", d, accepted)>>
               /\ IF accepted
                  THEN /\ disks' = disks @@ (d :> "CREATING")
                       /\ pc' = "add_disk_ready"
                       /\ result' = NoResult
                       /\ locals' = [diskname |-> d, timeout |-> 0]
                  ELSE /\ Return(Fault)
                       /\ locals' = NoLocals
                       /\ UNCHANGED disks
    /\ UNCHANGED <<buckets, instances, network, firewalls, resources, dns, rd>>

\* lines 799-811: one turn of the wait for the disk; once ready it is attached
add_disk_ready ==
    /\ pc = "add_disk_ready"
    /\ IF locals.timeout > DiskBudget
       THEN /\ Return(Failure(<<"timeout waiting for new disk to be ready">>))
            /\ UNCHANGED <<locals, calls, instances>>
       ELSE IF disks[locals.diskname] = "READY"
       THEN \E accepted \in BOOLEAN :
               /\ calls' = Issue("instances.attachDisk", args.name, accepted)
               /\ UNCHANGED locals
               /\ IF accepted
                  THEN /\ instances' = [instances EXCEPT ![args.name].ndisks = @ + 1]
                       /\ Return(Success)
                  ELSE /\ Return(Fault)
                       /\ UNCHANGED instances
       ELSE /\ pc' = pc
            /\ locals' = [locals EXCEPT !.timeout = DiskTick(@)]
            /\ UNCHANGED <<calls, instances, result>>
    /\ UNCHANGED <<buckets, disks, network, firewalls, resources, dns, call, rd, w>>

\* -------------------------------------------------------------- delete_dns
\* "sub in s" counted over the answers of a record
Matching(record, name) ==
    Cardinality({i \in 1..Len(record.rrdatas) : Contains(record.rrdatas[i], name)})

\* lines 1157-1164: how many times delete_dns puts the record in its list
Listed(record, n) ==
    IF \/ Contains(record.name, n.entry)
       \/ /\ Contains(n.name, ctlplane \o <<"-", "0">>)
          /\ EndsWith(record.name, n.cluster \o <<".">> \o n.domain \o <<".">>)
    THEN 1
    ELSE Matching(record, n.name)

\* delete_dns(name, domain), lines 1139-1174, where the backend accepts the
\* change set (changed) and the release of the address (released) or not: the
\* calls it issues, the backend it leaves, and whether it raises
DeleteDns(name, domain, changed, released) ==
    LET n == DnsNames(name, domain)
        listed == {r \in records : Listed(r, n) > 0}
        change == [api |-> "changes.create",
                   target |-> [r \in listed |-> Listed(r, n)],
                   status |-> IF changed THEN "DONE" ELSE "REJECTED"]
        release == Operation("addresses.delete", n.name, released)
    IN  IF dnszones(n.domain) = {}
        THEN [calls |-> <<>>, records |-> records, resources |-> resources,
              raised |-> FALSE, returned |-> Untagged]
        ELSE IF listed # {} /\ ~changed
        THEN [calls |-> <<change>>, records |-> records, resources |-> resources,
              raised |-> TRUE, returned |-> Fault]
        ELSE [calls |-> (IF listed # {} THEN <<change>> ELSE <<>>) \o <<release>>,
              records |-> records \ listed,
              resources |-> IF released
                            THEN [resources EXCEPT ![<<"addresses", n.name>>].state =
                                                       "DELETING"]
                            ELSE resources,
              raised |-> FALSE, returned |-> Success]

\* what the backend can answer to the two calls of delete_dns
DnsAnswers(name, domain) ==
    {a \in [changed : BOOLEAN, released : BOOLEAN] :
        /\ a.changed =>
              \A r \in records : Listed(r, DnsNames(name, domain)) <= 1
        /\ a.released =>
              <<"addresses", DnsNames(name, domain).name>> \in DOMAIN resources}

\* lines 1139-1174: delete_dns called by the user
delete_dns ==
    /\ \E name \in DnsVMNames, domain \in Domains :
          Enter("delete_dns", [name |-> name, domain |-> domain])
    /\ \E a \in DnsAnswers(args'.name, args'.domain) :
          LET d == DeleteDns(args'.name, args'.domain, a.changed, a.released)
          IN  /\ calls' = d.calls
              /\ records' = d.records
              /\ resources' = d.resources
              /\ Return(d.returned)
    /\ w' = NoWait
    /\ locals' = NoLocals
    /\ UNCHANGED <<buckets, compute, network, firewalls, zones, rd>>

\* ------------------------------------------------------ delete_loadbalancer
\* delete_loadbalancer: "if timeout >= 60" with "sleep(5); timeout += 5"
GoneBudget == 60
GoneSleep == 5

lb1 == <<"l", "b">>
LbNames == {lb1}

Resource(domain, dnsclient) ==
    [state |-> "READY", domain |-> domain, dnsclient |-> dnsclient,
     group |-> None, members |-> {}]

\* the names a list() of the kind returns
list(kind) == {k[2] : k \in {r \in DOMAIN resources : r[1] = kind}}

\* the backend takes the request to delete a resource
Deleting(kind, name) == [resources EXCEPT ![<<kind, name>>].state = "DELETING"]

\* lines 1347-1360: the firewall rule of the load balancer
delete_loadbalancer ==
    /\ \E name \in LbNames : Enter("delete_loadbalancer", [name |-> name])
    /\ locals' = [name |-> Replace(args'.name, <<".">>, <<"-">>),
                  rules |-> <<>>, index |-> 0, timeout |-> 0, slept |-> 0]
    /\ IF locals'.name \in firewalls
       THEN \E accepted \in BOOLEAN :
               /\ calls' = <<Operation("firewalls.delete", locals'.name, accepted)>>
               /\ IF accepted
                  THEN /\ firewalls' = firewalls \ {locals'.name}
                       /\ Wait(1, "delete_loadbalancer_rules")
                       /\ result' = NoResult
                  ELSE /\ Return(Fault)
                       /\ w' = NoWait
                       /\ UNCHANGED firewalls
       ELSE /\ pc' = "delete_loadbalancer_rules"
            /\ result' = NoResult
            /\ calls' = <<>>
            /\ w' = NoWait
            /\ UNCHANGED firewalls
    /\ UNCHANGED <<buckets, compute, network, resources, dns, rd>>

\* the sequences that hold each element of the set once
Orders(S) ==
    {q \in [1..Cardinality(S) -> S] : \A i, j \in 1..Cardinality(S) :
                                          i # j => q[i] # q[j]}

\* lines 1361-1365: the forwarding rules of the load balancer are listed
delete_loadbalancer_rules ==
    /\ pc = "delete_loadbalancer_rules"
    /\ \E rules \in Orders({n \in list("forwardingRules") :
                               n = locals.name
                               \/ StartsWith(n, locals.name \o <<"-">>)}) :
          locals' = [locals EXCEPT !.rules = rules, !.index = 1]
    /\ pc' = "delete_loadbalancer_rule"
    /\ UNCHANGED <<backend, call, rd, calls, w, result>>

\* lines 1366-1371: the next forwarding rule is deleted
delete_loadbalancer_rule ==
    /\ pc = "delete_loadbalancer_rule"
    /\ IF locals.index > Len(locals.rules)
       THEN /\ pc' = "delete_loadbalancer_address"
            /\ UNCHANGED <<resources, locals, calls, w, result>>
       ELSE \E accepted \in BOOLEAN :
               LET rule == locals.rules[locals.index] IN
               /\ accepted => <<"forwardingRules", rule>> \in DOMAIN resources
               /\ calls' = Issue("forwardingRules.delete", rule, accepted)
               /\ IF accepted
                  THEN /\ resources' = Deleting("forwardingRules", rule)
                       /\ Wait(Len(calls'), "delete_loadbalancer_gone")
                       /\ locals' = [locals EXCEPT !.timeout = 0, !.slept = 0]
                       /\ UNCHANGED result
                  ELSE /\ Return(Fault)
                       /\ UNCHANGED <<resources, locals, w>>
    /\ UNCHANGED <<buckets, compute, network, firewalls, dns, call, rd>>

\* a wait that would look at the listing once and go on
delete_loadbalancer_gone_once ==
    /\ pc = "delete_loadbalancer_gone"
    /\ pc' = "delete_loadbalancer_rule"
    /\ locals' = [locals EXCEPT !.index = @ + 1, !.timeout = 0, !.slept = 0]
    /\ UNCHANGED <<backend, call, rd, calls, w, result>>

\* lines 1372-1382: one turn of the wait for the rule to be gone
delete_loadbalancer_gone ==
    /\ pc = "delete_loadbalancer_gone"
    /\ IF \/ locals.timeout >= GoneBudget
          \/ locals.rules[locals.index] \notin list("forwardingRules")
       THEN \* break; timeout is set to 0 before it is read again
            /\ pc' = "delete_loadbalancer_rule"
            /\ locals' = [locals EXCEPT !.index = @ + 1, !.timeout = 0, !.slept = 0]
       ELSE /\ pc' = pc
            /\ locals' = [locals EXCEPT !.timeout = @ + GoneSleep,
                                        !.slept = @ + GoneSleep]
    /\ UNCHANGED <<backend, call, rd, calls, w, result>>

\* lines 1383-1395: the address and its DNS records, in one try
delete_loadbalancer_address ==
    /\ pc = "delete_loadbalancer_address"
    /\ LET key == <<"addresses", locals.name>> IN
       IF key \notin DOMAIN resources
       THEN /\ pc' = "delete_loadbalancer_backend"
            /\ UNCHANGED <<resources, records, calls, w>>
       ELSE LET address == resources[key]
                cleans == address.domain # None /\ address.dnsclient = None
                domain == Replace(address.domain, <<"-">>, <<".">>)
            IN  \E a \in (IF cleans THEN DnsAnswers(locals.name, domain)
                          ELSE {[changed |-> FALSE, released |-> FALSE]}),
                   accepted \in BOOLEAN :
                   LET d == IF cleans
                            THEN DeleteDns(locals.name, domain, a.changed, a.released)
                            ELSE [calls |-> <<>>, records |-> records,
                                  resources |-> resources, raised |-> FALSE]
                   IN  /\ records' = d.records
                       /\ IF d.raised
                          THEN /\ calls' = calls \o d.calls
                               /\ resources' = d.resources
                               /\ pc' = "delete_loadbalancer_backend"
                               /\ UNCHANGED w
                          ELSE /\ calls' = calls \o d.calls \o
                                     <<Operation("addresses.delete", locals.name,
                                                 accepted)>>
                               /\ IF accepted
                                  THEN /\ resources' =
                                            [d.resources EXCEPT ![key].state = "DELETING"]
                                       /\ Wait(Len(calls'), "delete_loadbalancer_backend")
                                  ELSE /\ resources' = d.resources
                                       /\ pc' = "delete_loadbalancer_backend"
                                       /\ UNCHANGED w
    /\ UNCHANGED <<buckets, compute, network, firewalls, zones, call, locals, rd, result>>

\* "for x in <kind>.list(): if x['name'] == name: delete, wait", where an
\* exception of the delete is caught (guarded) or not
DeleteListed(kind, next, guarded) ==
    IF locals.name \in list(kind)
    THEN \E accepted \in BOOLEAN :
            /\ calls' = Issue(kind \o ".delete", locals.name, accepted)
            /\ IF accepted
               THEN /\ resources' = Deleting(kind, locals.name)
                    /\ Wait(Len(calls'), next)
                    /\ UNCHANGED result
               ELSE /\ UNCHANGED <<resources, w>>
                    /\ IF guarded THEN pc' = next /\ UNCHANGED result
                       ELSE Return(Fault)
    ELSE /\ pc' = next
         /\ UNCHANGED <<resources, calls, w, result>>

\* lines 1396-1404
delete_loadbalancer_backend ==
    /\ pc = "delete_loadbalancer_backend"
    /\ DeleteListed("regionBackendServices", "delete_loadbalancer_regionhealth", FALSE)
    /\ UNCHANGED <<buckets, compute, network, firewalls, dns, call, locals, rd>>

\* lines 1405-1412
delete_loadbalancer_regionhealth ==
    /\ pc = "delete_loadbalancer_regionhealth"
    /\ DeleteListed("regionHealthChecks", "delete_loadbalancer_health", FALSE)
    /\ UNCHANGED <<buckets, compute, network, firewalls, dns, call, locals, rd>>

\* lines 1413-1420
delete_loadbalancer_health ==
    /\ pc = "delete_loadbalancer_health"
    /\ DeleteListed("healthChecks", "delete_loadbalancer_group", FALSE)
    /\ UNCHANGED <<buckets, compute, network, firewalls, dns, call, locals, rd>>

\* lines 1421-1432
delete_loadbalancer_group ==
    /\ pc = "delete_loadbalancer_group"
    /\ DeleteListed("instanceGroups", "delete_loadbalancer_return", TRUE)
    /\ UNCHANGED <<buckets, compute, network, firewalls, dns, call, locals, rd>>

\* lines 1433-1435: dnsclient is None
delete_loadbalancer_return ==
    /\ pc = "delete_loadbalancer_return"
    /\ Return(Success)
    /\ UNCHANGED <<backend, call, locals, rd, calls, w>>

\* ------------------------------------------------------- create_loadbalancer
\* lines 1020-1030: the subnets of the interfaces of a vm; kctl sits on the
\* subnet that the host project shares
shared == <<"shared">>
vm_ports(name) == IF name = kctl THEN <<shared>> ELSE <<sub1>>

\* the arguments of create_loadbalancer: name, vms, domain, alias, internal,
\* dnsclient and ip. An external load balancer for vm1 with a record, an
\* internal one for kctl with a given address, and calls without vms or with
\* a vm that does not exist
LbCreateArgs ==
    {a \in [name : {lb1}, vms : {<<>>, <<vm1>>, <<kctl>>, <<kctl, knode>>},
            domain : {None, <<"x">>}, alias : {<<>>}, internal : BOOLEAN,
            dnsclient : {None}, ip : {None, ip2}] :
        /\ a.ip = None <=> a.domain # None
        /\ a.internal <=> a.domain = None
        /\ a.internal <=> a.vms = <<kctl>>}

\* an internal load balancer for vm1 with a given address
InternalArgs ==
    {[name |-> lb1, vms |-> <<vm1>>, domain |-> None, alias |-> <<>>,
      internal |-> TRUE, dnsclient |-> None, ip |-> ip2]}

\* lines 1228-1245: no vm given
CreateLoadbalancer(Args) ==
    /\ \E a \in Args : Enter("create_loadbalancer", a)
    /\ calls' = <<>>
    /\ w' = NoWait
    /\ IF args'.vms = <<>>
       THEN /\ Return(Failure(<<"Creating a load balancer requires to specify some vms">>))
            /\ locals' = NoLocals
       ELSE /\ pc' = "create_loadbalancer_vm"
            /\ result' = NoResult
            /\ locals' = [name |-> Replace(args'.name, <<".">>, <<"-">>),
                          index |-> 0, instancegroup |-> None, instances |-> <<>>,
                          use_xproject |-> FALSE, ip |-> args'.ip, operation |-> 0]
    /\ UNCHANGED <<backend, rd>>

create_loadbalancer == CreateLoadbalancer(LbCreateArgs)

create_loadbalancer_internal == CreateLoadbalancer(InternalArgs)

\* a load balancer for vm1, of this project, and k-ctlplane-0, of the shared
\* network
MixedArgs ==
    {[name |-> lb1, vms |-> <<vm1, kctl>>, domain |-> None, alias |-> <<>>,
      internal |-> TRUE, dnsclient |-> None, ip |-> ip2]}

create_loadbalancer_mixed == CreateLoadbalancer(MixedArgs \cup InternalArgs)

\* lines 1246-1259, 680-696: one turn of the loop over the vms. A vm without
\* the loadbalancer label gets it by update_metadata (setLabels, not waited
\* for) and joins the instances of the group; the label of a vm that has it
\* names the group to reuse. The subnets of the first vm tell whether the
\* network of the load balancer is the one of the host project.
create_loadbalancer_vm ==
    /\ pc = "create_loadbalancer_vm"
    /\ LET vm == args.vms[locals.index + 1]
           last == locals.index + 1 = Len(args.vms)
       IN  IF vm \notin DOMAIN instances
           THEN /\ Return(Failure(<<"Vm ">> \o vm \o <<" not found">>))
                /\ UNCHANGED <<instances, calls, locals>>
           ELSE \E accepted \in BOOLEAN :
                   LET labels == instances[vm].labels
                       labelled == "loadbalancer" \in DOMAIN labels
                       use_xproject ==
                           xproject \in {subnets[vm_ports(vm)[n]].az :
                                            n \in 1..Len(vm_ports(vm))}
                   IN  /\ labelled => accepted
                       /\ calls' = IF labelled THEN calls
                                   ELSE Issue("instances.setLabels", vm, accepted)
                       /\ IF ~accepted
                          THEN /\ Return(Fault)
                               /\ UNCHANGED <<instances, locals>>
                          ELSE /\ instances' =
                                     IF labelled THEN instances
                                     ELSE [instances EXCEPT ![vm].labels =
                                             ("loadbalancer" :> locals.name) @@ labels]
                               /\ locals' =
                                     [locals EXCEPT
                                        !.index = @ + 1,
                                        !.instancegroup =
                                            IF labelled THEN labels.loadbalancer ELSE @,
                                        !.instances =
                                            IF labelled THEN @ ELSE Append(@, vm),
                                        !.use_xproject =
                                            IF locals.index = 0 THEN use_xproject ELSE @]
                               /\ pc' = IF last THEN "create_loadbalancer_health" ELSE pc
                               /\ UNCHANGED result
    /\ UNCHANGED <<buckets, disks, network, firewalls, resources, dns, call, rd, w>>

\* a step that would go on to next without handing its operation to the waiter
InsertNoWait(kind, next) ==
    \E accepted \in BOOLEAN :
       /\ accepted => <<kind, locals.name>> \notin DOMAIN resources
       /\ calls' = Issue(kind \o ".insert", locals.name, accepted)
       /\ IF accepted
          THEN /\ resources' = resources @@ (<<kind, locals.name>> :> Resource(None, None))
               /\ locals' = [locals EXCEPT !.operation = Len(calls')]
               /\ pc' = next
               /\ UNCHANGED <<w, result>>
          ELSE /\ Return(Fault)
               /\ UNCHANGED <<resources, locals, w>>

\* <kind>().insert(...).execute() of the resource named after the load
\* balancer, then self._wait_for_operation(operation)
InsertAs(kind, next, resource) ==
    \E accepted \in BOOLEAN :
       /\ accepted => <<kind, locals.name>> \notin DOMAIN resources
       /\ calls' = Issue(kind \o ".insert", locals.name, accepted)
       /\ IF accepted
          THEN /\ resources' = resources @@ (<<kind, locals.name>> :> resource)
               /\ locals' = [locals EXCEPT !.operation = Len(calls')]
               /\ Wait(Len(calls'), next)
               /\ UNCHANGED result
          ELSE /\ Return(Fault)
               /\ UNCHANGED <<resources, locals, w>>

Insert(kind, next) == InsertAs(kind, next, Resource(None, None))

\* lines 1260-1271: the health check, global for an internal load balancer
create_loadbalancer_health ==
    /\ pc = "create_loadbalancer_health"
    /\ Insert(IF args.internal THEN "healthChecks" ELSE "regionHealthChecks",
              "create_loadbalancer_group")
    /\ UNCHANGED <<buckets, compute, network, firewalls, dns, call, rd>>

\* lines 1272-1278, 1284-1286: the instance group, or the lookup of the one
\* a vm already belongs to
create_loadbalancer_group ==
    /\ pc = "create_loadbalancer_group"
    /\ IF locals.instancegroup = None
       THEN Insert("instanceGroups", "create_loadbalancer_members")
       ELSE /\ IF <<"instanceGroups", locals.instancegroup>> \in DOMAIN resources
               THEN pc' = "create_loadbalancer_backend" /\ UNCHANGED result
               ELSE Return(Fault)
            /\ UNCHANGED <<resources, locals, calls, w>>
    /\ UNCHANGED <<buckets, compute, network, firewalls, dns, call, rd>>

\* lines 1279-1283: the vms that were labelled join the new group
create_loadbalancer_members ==
    /\ pc = "create_loadbalancer_members"
    /\ IF locals.instances # <<>>
       THEN \E accepted \in BOOLEAN :
               /\ calls' = Issue("instanceGroups.addInstances", locals.name, accepted)
               /\ IF accepted
                  THEN /\ resources' =
                             [resources EXCEPT
                                ![<<"instanceGroups", locals.name>>].members =
                                    @ \cup {locals.instances[i] :
                                               i \in 1..Len(locals.instances)}]
                       /\ locals' = [locals EXCEPT !.operation = Len(calls')]
                       /\ Wait(Len(calls'), "create_loadbalancer_backend")
                       /\ UNCHANGED result
                  ELSE /\ Return(Fault)
                       /\ UNCHANGED <<resources, locals, w>>
       ELSE /\ pc' = "create_loadbalancer_backend"
            /\ UNCHANGED <<resources, locals, calls, w, result>>
    /\ UNCHANGED <<buckets, compute, network, firewalls, dns, call, rd>>

\* lines 1277, 1286: instances_group_url, of the new group or of the one found
instances_group ==
    IF locals.instancegroup = None THEN locals.name ELSE locals.instancegroup

\* lines 1287-1292: the backend service, with the group as its backend
create_loadbalancer_backend ==
    /\ pc = "create_loadbalancer_backend"
    /\ InsertAs("regionBackendServices", "create_loadbalancer_address",
                [Resource(None, None) EXCEPT !.group = instances_group])
    /\ UNCHANGED <<buckets, compute, network, firewalls, dns, call, rd>>

\* lines 1293-1298, 1308-1311: the address, unless one is given; with a given
\* address the last operation is waited for once more
create_loadbalancer_address ==
    /\ pc = "create_loadbalancer_address"
    /\ IF args.ip = None
       THEN Insert("addresses", "create_loadbalancer_labels")
       ELSE /\ Wait(locals.operation, "create_loadbalancer_rule")
            /\ UNCHANGED <<resources, locals, calls, result>>
    /\ UNCHANGED <<buckets, compute, network, firewalls, dns, call, rd>>

\* lines 1299-1311: the address is read back and labelled with the domain
\* (setLabels, not waited for), then its insert is waited for once more
create_loadbalancer_labels ==
    /\ pc = "create_loadbalancer_labels"
    /\ LET k == <<"addresses", locals.name>>
       IN  IF args.domain = None
           THEN /\ locals' = [locals EXCEPT !.ip = ip1]
                /\ Wait(locals.operation, "create_loadbalancer_rule")
                /\ UNCHANGED <<resources, calls, result>>
           ELSE \E accepted \in BOOLEAN :
                   /\ calls' = Issue("addresses.setLabels", locals.name, accepted)
                   /\ IF accepted
                      THEN /\ resources' =
                                 [resources EXCEPT
                                    ![k].domain = Replace(args.domain, <<".">>, <<"-">>),
                                    ![k].dnsclient = args.dnsclient]
                           /\ locals' = [locals EXCEPT !.ip = ip1]
                           /\ Wait(locals.operation, "create_loadbalancer_rule")
                           /\ UNCHANGED result
                      ELSE /\ Return(Fault)
                           /\ UNCHANGED <<resources, locals, w>>
    /\ UNCHANGED <<buckets, compute, network, firewalls, dns, call, rd>>

\* lines 1312-1327: the forwarding rule
create_loadbalancer_rule ==
    /\ pc = "create_loadbalancer_rule"
    /\ Insert("forwardingRules", "create_loadbalancer_firewall")
    /\ UNCHANGED <<buckets, compute, network, firewalls, dns, call, rd>>

\* lines 1328-1337: the firewall rule, unless the network is the one of the
\* host project
create_loadbalancer_firewall ==
    /\ pc = "create_loadbalancer_firewall"
    /\ IF ~locals.use_xproject
       THEN \E accepted \in BOOLEAN :
               /\ accepted => locals.name \notin firewalls
               /\ calls' = Issue("firewalls.insert", locals.name, accepted)
               /\ IF accepted
                  THEN /\ firewalls' = firewalls \cup {locals.name}
                       /\ locals' = [locals EXCEPT !.operation = Len(calls')]
                       /\ Wait(Len(calls'), "create_loadbalancer_dns")
                       /\ UNCHANGED result
                  ELSE /\ Return(Fault)
                       /\ UNCHANGED <<firewalls, locals, w>>
       ELSE /\ pc' = "create_loadbalancer_dns"
            /\ UNCHANGED <<firewalls, locals, calls, w, result>>
    /\ UNCHANGED <<buckets, compute, network, resources, dns, call, rd>>

\* lines 1338-1341: with a dnsclient the address is returned as is; else the
\* record is left to reserve_dns
create_loadbalancer_dns ==
    /\ pc = "create_loadbalancer_dns"
    /\ IF args.domain = None
       THEN Return(Success) /\ rd' = rd
       ELSE IF args.dnsclient # None
       THEN Return(Untagged) /\ rd' = rd
       ELSE ReserveDns(args.name, <<>>, args.domain, locals.ip, args.alias,
                       "create_loadbalancer_return")
    /\ UNCHANGED <<backend, call, locals, calls, w>>

\* line 1342
create_loadbalancer_return ==
    /\ pc = "create_loadbalancer_return"
    /\ Return(Success)
    /\ UNCHANGED <<backend, call, locals, rd, calls, w>>

\* the backend removes a resource it was asked to delete
ResourceGone ==
    /\ \E k \in DOMAIN resources :
          /\ resources[k].state = "DELETING"
          /\ resources' = [x \in DOMAIN resources \ {k} |-> resources[x]]
    /\ UNCHANGED <<buckets, compute, network, firewalls, dns,
                   call, pc, locals, rd, calls, w, result>>

\* -------------------------------------------------------------------- list
\* the characters of the names, in the order of their code points
Alphabet ==
    <<"-", "0", "1", "2", "3", "4", "5", "6", "7", "8", "9",
      "a", "b", "c", "d", "e", "f", "g", "h", "i", "j", "k", "l", "m",
      "n", "o", "p", "q", "r", "s", "t", "u", "v", "w", "x", "y", "z">>

Ord(c) == CHOOSE i \in 1..Len(Alphabet) : Alphabet[i] = c

\* a < b for two str
Less(a, b) ==
    \E k \in 1..(Len(a) + 1) :
       /\ k <= Len(b)
       /\ \A i \in 1..(k - 1) : a[i] = b[i]
       /\ k <= Len(a) => Ord(a[k]) < Ord(b[k])

\* r is put before the first record of s that is not below it
RECURSIVE Placed(_, _)
Placed(r, s) ==
    IF s = <<>> THEN <<r>>
    ELSE IF Less(Head(s).name, r.name) THEN <<Head(s)>> \o Placed(r, Tail(s))
    ELSE <<r>> \o s

\* a listing that would keep the order of the backend
sortedNever(vms) == vms

\* sorted(vms, key=lambda x: x['name'])
RECURSIVE sorted(_)
sorted(vms) == IF vms = <<>> THEN <<>> ELSE Placed(Head(vms), sorted(Tail(vms)))

\* lines 566-575 of info: conn.disks().get(...) of a disk that is gone raises
Throws(name) ==
    \E n \in 1..(instances[name].ndisks - 1) : diskname(name, n) \notin DOMAIN disks

\* self.info(name, vm=vm): the record of an instance
Info(name) == [name |-> name, status |-> instances[name].status]

\* the records of the instances of items whose lookup does not raise, in the
\* order of items
RECURSIVE Records(_)
Records(items) ==
    IF items = <<>> THEN <<>>
    ELSE IF Throws(Head(items)) THEN Records(Tail(items))
    ELSE <<Info(Head(items))>> \o Records(Tail(items))

Listing(vms) == [result |-> "list", vms |-> vms]

\* lines 461-475: the instances of the zone, in the order the backend lists
\* them
list_ ==
    /\ Enter("list", NoLocals)
    /\ \E instances_items \in Orders(DOMAIN instances) :
          /\ locals' = [instances_items |-> instances_items]
          /\ Return(Listing(sorted(Records(instances_items))))
    /\ calls' = <<>>
    /\ w' = NoWait
    /\ UNCHANGED <<backend, rd>>

\* ------------------------------------------------------------------ delete
\* lines 648-674: the instance is looked up; its records are removed by
\* delete_dns when it carries a domain label and no dnsclient label; its delete
\* is issued and not waited for; the firewall rule of its cluster is deleted
\* (and waited for) in a try
delete ==
    /\ \E name \in VMNames : Enter("delete", [name |-> name])
    /\ locals' = NoLocals
    /\ IF args'.name \notin DOMAIN instances
       THEN /\ Return(Failure(<<"VM not found">>))
            /\ calls' = <<>>
            /\ w' = NoWait
            /\ UNCHANGED <<instances, firewalls, resources, records>>
       ELSE LET labels == instances[args'.name].labels
                cleans == labels.domain # None /\ labels.dnsclient = None
                domain == Replace(labels.domain, <<"-">>, <<".">>)
                kube == labels.kube
            IN  \E a \in (IF cleans THEN DnsAnswers(args'.name, domain)
                          ELSE {[changed |-> FALSE, released |-> FALSE]}),
                   deleted \in BOOLEAN, closed \in BOOLEAN :
                   LET d == IF cleans
                            THEN DeleteDns(args'.name, domain, a.changed, a.released)
                            ELSE [calls |-> <<>>, records |-> records,
                                  resources |-> resources, raised |-> FALSE]
                       instance == Operation("instances.delete", args'.name, deleted)
                       firewall == Operation("firewalls.delete", kube, closed)
                   IN  /\ closed => kube \in firewalls
                       /\ records' = d.records
                       /\ resources' = d.resources
                       /\ IF d.raised
                          THEN /\ calls' = d.calls
                               /\ Return(Fault)
                               /\ w' = NoWait
                               /\ UNCHANGED <<instances, firewalls>>
                          ELSE IF ~deleted
                          THEN /\ calls' = d.calls \o <<instance>>
                               /\ Return(Fault)
                               /\ w' = NoWait
                               /\ UNCHANGED <<instances, firewalls>>
                          ELSE /\ instances' =
                                    [instances EXCEPT ![args'.name].status = "STOPPING"]
                               /\ IF kube = None
                                  THEN /\ calls' = d.calls \o <<instance>>
                                       /\ Return(Success)
                                       /\ w' = NoWait
                                       /\ UNCHANGED firewalls
                                  ELSE /\ calls' = d.calls \o <<instance, firewall>>
                                       /\ IF closed
                                          THEN /\ firewalls' = firewalls \ {kube}
                                               /\ Wait(Len(calls'), "delete_return")
                                               /\ result' = NoResult
                                          ELSE /\ Return(Success)
                                               /\ w' = NoWait
                                               /\ UNCHANGED firewalls
    /\ UNCHANGED <<buckets, disks, network, zones, rd>>

\* line 674
delete_return ==
    /\ pc = "delete_return"
    /\ Return(Success)
    /\ UNCHANGED <<backend, call, locals, rd, calls, w>>

\* the backend removes an instance it was asked to delete
InstanceGone ==
    /\ \E n \in DOMAIN instances :
          /\ instances[n].status = "STOPPING"
          /\ instances' = [x \in DOMAIN instances \ {n} |-> instances[x]]
    /\ UNCHANGED <<buckets, disks, network, firewalls, resources, dns,
                   call, pc, locals, rd, calls, w, result>>

\* ---------------------------------------------------------- delete_network
\* network['subnetworks'] of a network in custom mode
subnetworks(name) == {s \in DOMAIN subnets : subnets[s].network = name}

\* lines 907-915: the network is looked up, and its subnets if it is not in
\* auto mode
delete_network ==
    /\ \E name \in {net1, default} : Enter("delete_network", [name |-> name])
    /\ calls' = <<>>
    /\ w' = NoWait
    /\ IF args'.name \notin networks
       THEN /\ Return(Failure(<<"Network not found">>))
            /\ locals' = NoLocals
       ELSE /\ pc' = "delete_network_subnet"
            /\ result' = NoResult
            /\ \E subs \in Orders(IF args'.name \in autoCreateSubnetworks THEN {}
                                  ELSE subnetworks(args'.name)) :
                  locals' = [subnetworks |-> subs, index |-> 1]
    /\ UNCHANGED <<backend, rd>>

\* lines 916-919: the next subnet is deleted and waited for
delete_network_subnet ==
    /\ pc = "delete_network_subnet"
    /\ IF locals.index > Len(locals.subnetworks)
       THEN /\ pc' = "delete_network_firewall"
            /\ UNCHANGED <<subnets, locals, calls, w, result>>
       ELSE \E accepted \in BOOLEAN :
               LET subnetwork == locals.subnetworks[locals.index] IN
               /\ accepted => /\ subnetwork \in DOMAIN subnets
                              /\ subnets[subnetwork].az = project
               /\ calls' = Issue("subnetworks.delete", subnetwork, accepted)
               /\ IF accepted
                  THEN /\ subnets' = [x \in DOMAIN subnets \ {subnetwork} |-> subnets[x]]
                       /\ locals' = [locals EXCEPT !.index = @ + 1]
                       /\ Wait(Len(calls'), "delete_network_subnet")
                       /\ UNCHANGED result
                  ELSE /\ Return(Fault)
                       /\ UNCHANGED <<subnets, locals, w>>
    /\ UNCHANGED <<buckets, compute, networks, autoCreateSubnetworks, firewalls,
                   resources, dns, call, rd>>

\* a delete of the allow-ssh rule that would be made outside of a try
delete_network_firewall_raises ==
    /\ pc = "delete_network_firewall"
    /\ \E accepted \in BOOLEAN :
          /\ accepted => allow_ssh(args.name) \in firewalls
          /\ calls' = Issue("firewalls.delete", allow_ssh(args.name), accepted)
          /\ IF accepted
             THEN /\ firewalls' = firewalls \ {allow_ssh(args.name)}
                  /\ Wait(Len(calls'), "delete_network_network")
                  /\ UNCHANGED result
             ELSE /\ Return(Fault)
                  /\ UNCHANGED <<firewalls, w>>
    /\ UNCHANGED <<buckets, compute, network, resources, dns, call, locals, rd>>

\* lines 920-924: the allow-ssh rule of the network, in a try
delete_network_firewall ==
    /\ pc = "delete_network_firewall"
    /\ \E accepted \in BOOLEAN :
          /\ accepted => allow_ssh(args.name) \in firewalls
          /\ calls' = Issue("firewalls.delete", allow_ssh(args.name), accepted)
          /\ IF accepted
             THEN /\ firewalls' = firewalls \ {allow_ssh(args.name)}
                  /\ Wait(Len(calls'), "delete_network_network")
             ELSE /\ pc' = "delete_network_network"
                  /\ UNCHANGED <<firewalls, w>>
    /\ UNCHANGED <<buckets, compute, network, resources, dns, call, locals, rd, result>>

\* lines 925-926: the network is deleted and waited for; the backend keeps a
\* network that still has a subnet of its own
delete_network_network ==
    /\ pc = "delete_network_network"
    /\ \E accepted \in BOOLEAN :
          /\ accepted => /\ args.name \in networks
                         /\ subnetworks(args.name) = {}
          /\ calls' = Issue("networks.delete", args.name, accepted)
          /\ IF accepted
             THEN /\ networks' = networks \ {args.name}
                  /\ autoCreateSubnetworks' = autoCreateSubnetworks \ {args.name}
                  /\ Wait(Len(calls'), "delete_network_return")
                  /\ UNCHANGED result
             ELSE /\ Return(Fault)
                  /\ UNCHANGED <<networks, autoCreateSubnetworks, w>>
    /\ UNCHANGED <<buckets, compute, subnets, firewalls, resources, dns, call, locals, rd>>

\* line 927
delete_network_return ==
    /\ pc = "delete_network_return"
    /\ Return(Success)
    /\ UNCHANGED <<backend, call, locals, rd, calls, w>>

\* ----------------------------------------------------------- delete_subnet
\* self.list_subnets(): the subnets of the project and of the shared VPC's host
list_subnets == DOMAIN subnets

\* lines 1654-1663: the subnet is looked up in the listing, deleted in
\* self.project and waited for
delete_subnet ==
    /\ \E name \in {sub1, net1} : Enter("delete_subnet", [name |-> name])
    /\ locals' = NoLocals
    /\ IF args'.name \notin list_subnets
       THEN /\ Return(Failure(<<"Subnet not found">>))
            /\ calls' = <<>>
            /\ w' = NoWait
            /\ UNCHANGED subnets
       ELSE \E accepted \in BOOLEAN :
               /\ accepted => subnets[args'.name].az = project
               /\ calls' = <<Operation("subnetworks.delete", args'.name, accepted)>>
               /\ IF accepted
                  THEN /\ subnets' = [x \in DOMAIN subnets \ {args'.name} |-> subnets[x]]
                       /\ Wait(1, "delete_subnet_return")
                       /\ result' = NoResult
                  ELSE /\ Return(Fault)
                       /\ w' = NoWait
                       /\ UNCHANGED subnets
    /\ UNCHANGED <<buckets, compute, networks, autoCreateSubnetworks, firewalls,
                   resources, dns, rd>>

\* line 1664
delete_subnet_return ==
    /\ pc = "delete_subnet_return"
    /\ Return(Success)
    /\ UNCHANGED <<backend, call, locals, rd, calls, w>>

\* ----------------------------------------------------------- delete_bucket
bucket1 == <<"b1">>
blob1 == <<"o1">>
blob2 == <<"o2">>
blob3 == <<"o3">>

\* a call of the storage client: it returns when the backend has done it, or
\* raises
Request(api, target, accepted) ==
    [api |-> api, target |-> target,
     status |-> IF accepted THEN "DONE" ELSE "REJECTED"]

\* lines 1475-1481: the bucket is looked up ("Inexistent bucket": a bare
\* return) and its objects are listed
delete_bucket ==
    /\ \E bucket \in {bucket1} : Enter("delete_bucket", [bucket |-> bucket])
    /\ calls' = <<>>
    /\ w' = NoWait
    /\ IF args'.bucket \notin DOMAIN buckets
       THEN /\ Return(Untagged)
            /\ locals' = NoLocals
       ELSE /\ pc' = "delete_bucket_blobs"
            /\ result' = NoResult
            /\ \E blobs \in Orders(buckets[args'.bucket]) :
                  locals' = [blobs |-> blobs, index |-> 1]
    /\ UNCHANGED <<backend, rd>>

\* a loop that would leave the last listed object alone
MoreBlobsButLast == locals.index < Len(locals.blobs)

\* line 1482, "for obj in bucket.list_blobs()": an object is left to visit
MoreBlobs == locals.index <= Len(locals.blobs)

\* lines 1482-1485: the next object is deleted, or the bucket once the loop is
\* over (the backend keeps a bucket that is not empty); the method ends
\* without a return
delete_bucket_blobs ==
    /\ pc = "delete_bucket_blobs"
    /\ \E accepted \in BOOLEAN :
          IF ~MoreBlobs
          THEN /\ accepted => /\ args.bucket \in DOMAIN buckets
                              /\ buckets[args.bucket] = {}
               /\ calls' = Append(calls, Request("bucket.delete", args.bucket, accepted))
               /\ buckets' = IF accepted
                             THEN [x \in DOMAIN buckets \ {args.bucket} |-> buckets[x]]
                             ELSE buckets
               /\ Return(IF accepted THEN Untagged ELSE Fault)
               /\ UNCHANGED locals
          ELSE LET obj == locals.blobs[locals.index] IN
               /\ accepted => obj \in buckets[args.bucket]
               /\ calls' = Append(calls, Request("blob.delete", obj, accepted))
               /\ IF accepted
                  THEN /\ buckets' = [buckets EXCEPT ![args.bucket] = @ \ {obj}]
                       /\ locals' = [locals EXCEPT !.index = @ + 1]
                       /\ pc' = pc
                       /\ UNCHANGED result
                  ELSE /\ Return(Fault)
                       /\ UNCHANGED <<buckets, locals>>
    /\ UNCHANGED <<compute, network, firewalls, resources, dns, call, rd, w>>

\* --------------------------------------------------------------------- spec
\* the adapter after __init__: no call made yet
Constructed ==
    /\ pc = "idle"
    /\ op = "none"
    /\ args = NoLocals
    /\ locals = NoLocals
    /\ rd = NoLocals
    /\ calls = <<>>
    /\ w = NoWait
    /\ result = NoResult
    /\ ncalls = 0
    /\ defaults = [tags |-> <<>>, files |-> <<>>]

Nothing == [n \in {} |-> 0]

Statuses == {"PROVISIONING", "RUNNING", "STOPPING", "SUSPENDED", "TERMINATED"}

zone_x == [name |-> <<"x">>, dns_name |-> <<"x", ".">>]

\* a project with the default network, a subnet and a zone; kctl may exist
Init ==
    /\ instances \in {Nothing,
                      (kctl :> NewInstance(machineTypes(e2_small), NoMetadata, 1))}
    /\ disks = Nothing
    /\ networks = {default}
    /\ autoCreateSubnetworks = {default}
    /\ subnets = (sub1 :> [az |-> project, network |-> default])
    /\ firewalls = {}
    /\ resources = Nothing
    /\ zones = {zone_x}
    /\ records = {}
    /\ buckets = Nothing
    /\ Constructed

\* the same project with the instance vm1, in any state and of any shape
InitResize ==
    /\ \E status \in Statuses,
          machine_type \in {custom_2_2048, e2_small, n2_custom} :
          instances = (vm1 :> [NewInstance(machineTypes(machine_type), NoMetadata, 1)
                                 EXCEPT !.status = status])
    /\ disks = Nothing
    /\ networks = {default}
    /\ autoCreateSubnetworks = {default}
    /\ subnets = (sub1 :> [az |-> project, network |-> default])
    /\ firewalls = {}
    /\ resources = Nothing
    /\ zones = {zone_x}
    /\ records = {}
    /\ buckets = Nothing
    /\ Constructed

LbWorlds == {{"forwardingRules"}, {"addresses", "instanceGroups"}}

\* the project with (parts of) the load balancer lb
InitLb ==
    /\ instances = Nothing
    /\ disks = Nothing
    /\ networks = {default}
    /\ autoCreateSubnetworks = {default}
    /\ subnets = (sub1 :> [az |-> project, network |-> default])
    /\ firewalls = {}
    /\ \E kinds \in LbWorlds :
          resources = [k \in {<<kind, lb1>> : kind \in kinds} |->
                          Resource(IF k[1] = "addresses" THEN <<"x">> ELSE None, None)]
    /\ zones = {zone_x}
    /\ records = {[zone |-> <<"x">>, name |-> <<"l", "b", ".", "x", ".">>,
                   type |-> "A", rrdatas |-> <<ip1>>]}
    /\ buckets = Nothing
    /\ Constructed

NextLb ==
    \/ OperationCompletes
    \/ ResourceGone
    \/ _wait_for_operation
    \/ delete_loadbalancer
    \/ delete_loadbalancer_rules
    \/ delete_loadbalancer_rule
    \/ delete_loadbalancer_gone
    \/ delete_loadbalancer_address
    \/ delete_loadbalancer_backend
    \/ delete_loadbalancer_regionhealth
    \/ delete_loadbalancer_health
    \/ delete_loadbalancer_group
    \/ delete_loadbalancer_return

SpecLb == InitLb /\ [][NextLb]_vars

NextNetwork ==
    \/ OperationCompletes
    \/ _wait_for_operation
    \/ create_network
    \/ create_network_subnet
    \/ create_network_firewall

NextShape ==
    \/ OperationCompletes
    \/ create_shape
    \/ create_disk
    \/ create_firewall
    \/ create_insert

NextCreate ==
    \/ OperationCompletes
    \/ DiskReady
    \/ create
    \/ create_disk
    \/ create_disk_ready
    \/ create_firewall
    \/ create_insert

NextResize ==
    \/ OperationCompletes
    \/ update_flavor
    \/ update_memory
    \/ update_cpus

SpecNetwork == Init /\ [][NextNetwork]_vars

SpecShape == Init /\ [][NextShape]_vars

SpecCreate == Init /\ [][NextCreate]_vars

SpecResize == InitResize /\ [][NextResize]_vars

\* the project with the instance vm1 and the forwarding rule of the load
\* balancer lb
InitLive ==
    /\ instances = (vm1 :> [NewInstance(machineTypes(e2_small), NoMetadata, 1)
                               EXCEPT !.status = "RUNNING"])
    /\ disks = Nothing
    /\ networks = {default}
    /\ autoCreateSubnetworks = {default}
    /\ subnets = (sub1 :> [az |-> project, network |-> default])
    /\ firewalls = {}
    /\ resources = (<<"forwardingRules", lb1>> :> Resource(None, None))
    /\ zones = {zone_x}
    /\ records = {}
    /\ buckets = Nothing
    /\ Constructed

\* the backend, which owes the adapter nothing
Backend ==
    \/ OperationCompletes
    \/ DiskReady
    \/ InstanceRuns
    \/ ResourceGone

\* the steps of the running public method
Running ==
    \/ _wait_for_operation
    \/ create_disk
    \/ create_disk_ready
    \/ create_firewall
    \/ create_insert
    \/ create_return
    \/ reserve_dns_internalip
    \/ reserve_dns_address
    \/ reserve_dns_ip
    \/ reserve_dns_changes
    \/ add_disk_ready
    \/ delete_loadbalancer_rules
    \/ delete_loadbalancer_rule
    \/ delete_loadbalancer_gone
    \/ delete_loadbalancer_address
    \/ delete_loadbalancer_backend
    \/ delete_loadbalancer_regionhealth
    \/ delete_loadbalancer_health
    \/ delete_loadbalancer_group
    \/ delete_loadbalancer_return

NextLive ==
    \/ Backend
    \/ Running
    \/ create_node
    \/ add_disk
    \/ delete_loadbalancer

\* the interpreter keeps running the method it is in: sleep() returns and the
\* backend answers every request
SpecLive == InitLive /\ [][NextLive]_vars /\ WF_vars(Running)

\* a project where each of the node k-ctlplane-0 (with its record and the
\* firewall rule of its cluster), the network n1 (with its subnet and its
\* allow-ssh rule) and the bucket b1 (with two objects) exists or not
InitDelete ==
    /\ \E node \in BOOLEAN, net \in BOOLEAN, bucket \in BOOLEAN :
          /\ instances =
                IF node
                THEN (kctl :> [NewInstance(machineTypes(e2_small),
                                           Labels([kubetype |-> generic, kube |-> kube1,
                                                   domain |-> domain1,
                                                   dnsclient |-> None]), 1)
                                 EXCEPT !.status = "RUNNING", !.networkIP = ip2,
                                        !.natIP = ip1])
                ELSE Nothing
          /\ records =
                IF node
                THEN {[zone |-> <<"x">>, name |-> DnsNames(kctl, domain1).entry,
                       type |-> "A", rrdatas |-> <<ip1>>]}
                ELSE {}
          /\ networks = IF net THEN {default, net1} ELSE {default}
          /\ subnets = IF net
                       THEN (sub1 :> [az |-> project, network |-> default])
                            @@ (net1 :> [az |-> project, network |-> net1])
                       ELSE (sub1 :> [az |-> project, network |-> default])
          /\ firewalls = (IF node THEN {kube1} ELSE {})
                         \cup (IF net THEN {allow_ssh(net1)} ELSE {})
          /\ buckets = IF bucket THEN (bucket1 :> {blob1, blob2}) ELSE Nothing
    /\ disks = Nothing
    /\ autoCreateSubnetworks = {default}
    /\ resources = Nothing
    /\ zones = {zone_x}
    /\ Constructed

NextDelete ==
    \/ OperationCompletes
    \/ InstanceGone
    \/ _wait_for_operation
    \/ delete
    \/ delete_return
    \/ delete_network
    \/ delete_network_subnet
    \/ delete_network_firewall
    \/ delete_network_network
    \/ delete_network_return
    \/ delete_subnet
    \/ delete_subnet_return
    \/ delete_bucket
    \/ delete_bucket_blobs

SpecDelete == InitDelete /\ [][NextDelete]_vars

\* a project with the nodes vm1 (stopped) and k-ctlplane-0, which have no
\* address until the backend runs them
InitNode ==
    /\ instances = [n \in VMNames |->
                       [NewInstance(machineTypes(e2_small), NoMetadata, 1)
                          EXCEPT !.status = IF n = vm1 THEN "TERMINATED" ELSE @]]
    /\ disks = Nothing
    /\ networks = {default}
    /\ autoCreateSubnetworks = {default}
    /\ subnets = (sub1 :> [az |-> project, network |-> default])
    /\ firewalls = {}
    /\ resources = Nothing
    /\ zones = {zone_x}
    /\ records = {}
    /\ buckets = Nothing
    /\ Constructed

NextNode ==
    \/ OperationCompletes
    \/ InstanceRuns
    \/ ResourceGone
    \/ start
    \/ delete_dns
    \/ reserve_dns
    \/ reserve_dns_internalip
    \/ reserve_dns_address
    \/ reserve_dns_ip
    \/ reserve_dns_changes

SpecNode == InitNode /\ [][NextNode]_vars

\* a project where the bucket b1 may exist, with any of three objects
InitBucket ==
    /\ \/ buckets = Nothing
       \/ \E blobs \in SUBSET {blob1, blob2, blob3} : buckets = (bucket1 :> blobs)
    /\ instances = Nothing
    /\ disks = Nothing
    /\ networks = {default}
    /\ autoCreateSubnetworks = {default}
    /\ subnets = (sub1 :> [az |-> project, network |-> default])
    /\ firewalls = {}
    /\ resources = Nothing
    /\ zones = {zone_x}
    /\ records = {}
    /\ Constructed

NextBucket ==
    \/ delete_bucket
    \/ delete_bucket_blobs

SpecBucket == InitBucket /\ [][NextBucket]_vars

\* a project with the running nodes vm1, k-ctlplane-0 and k-node-0
InitDns ==
    /\ instances = [n \in DnsVMNames |->
                       [NewInstance(machineTypes(e2_small), NoMetadata, 1)
                          EXCEPT !.status = "RUNNING", !.networkIP = ip2,
                                 !.natIP = ip1]]
    /\ disks = Nothing
    /\ networks = {default}
    /\ autoCreateSubnetworks = {default}
    /\ subnets = (sub1 :> [az |-> project, network |-> default])
    /\ firewalls = {}
    /\ resources = Nothing
    /\ zones = {zone_x}
    /\ records = {}
    /\ buckets = Nothing
    /\ Constructed

NextDns ==
    \/ reserve_dns
    \/ reserve_dns_internalip
    \/ reserve_dns_address
    \/ reserve_dns_ip
    \/ reserve_dns_changes

SpecDns == InitDns /\ [][NextDns]_vars

\* the DNS methods called by the user, on the project of InitDns
NextZone ==
    \/ ResourceGone
    \/ reserve_dns
    \/ reserve_dns_internalip
    \/ reserve_dns_address
    \/ reserve_dns_ip
    \/ reserve_dns_changes
    \/ delete_dns

SpecZone == InitDns /\ [][NextZone]_vars

\* reserve_dns called by the user for nodes that may have no address yet
NextReserve ==
    \/ InstanceRuns
    \/ reserve_dns
    \/ reserve_dns_internalip
    \/ reserve_dns_address
    \/ reserve_dns_ip
    \/ reserve_dns_changes

SpecReserve == InitNode /\ [][NextReserve]_vars

\* a project with the instances vm1, in the group of an older load balancer,
\* and kctl, and a subnet shared by the host project
InitLbCreate ==
    /\ instances =
          (vm1 :> [NewInstance(machineTypes(e2_small),
                               ("loadbalancer" :> <<"old">>) @@ NoMetadata, 1)
                     EXCEPT !.status = "RUNNING"])
          @@ (kctl :> [NewInstance(machineTypes(e2_small), NoMetadata, 1)
                         EXCEPT !.status = "RUNNING"])
    /\ resources = (<<"instanceGroups", <<"old">>>> :>
                       [Resource(None, None) EXCEPT !.members = {vm1}])
    /\ disks = Nothing
    /\ networks = {default}
    /\ autoCreateSubnetworks = {default}
    /\ subnets = (sub1 :> [az |-> project, network |-> default])
                 @@ (shared :> [az |-> xproject, network |-> <<"vpc">>])
    /\ firewalls = {}
    /\ zones = {zone_x}
    /\ records = {}
    /\ buckets = Nothing
    /\ Constructed

NextLbCreate ==
    \/ OperationCompletes
    \/ _wait_for_operation
    \/ create_loadbalancer
    \/ create_loadbalancer_vm
    \/ create_loadbalancer_health
    \/ create_loadbalancer_group
    \/ create_loadbalancer_members
    \/ create_loadbalancer_backend
    \/ create_loadbalancer_address
    \/ create_loadbalancer_labels
    \/ create_loadbalancer_rule
    \/ create_loadbalancer_firewall
    \/ create_loadbalancer_dns
    \/ create_loadbalancer_return
    \/ reserve_dns_address
    \/ reserve_dns_changes

SpecLbCreate == InitLbCreate /\ [][NextLbCreate]_vars

\* a project with the network net1, its two subnets and, or not, its
\* allow-ssh rule
InitNetDelete ==
    /\ instances = Nothing
    /\ disks = Nothing
    /\ networks = {default, net1}
    /\ autoCreateSubnetworks = {default}
    /\ subnets = (sub1 :> [az |-> project, network |-> default])
                 @@ (net1 :> [az |-> project, network |-> net1])
                 @@ (<<"net1-b">> :> [az |-> project, network |-> net1])
    /\ firewalls \in {{}, {allow_ssh(net1)}}
    /\ resources = Nothing
    /\ zones = {zone_x}
    /\ records = {}
    /\ buckets = Nothing
    /\ Constructed

NextNetDelete ==
    \/ OperationCompletes
    \/ _wait_for_operation
    \/ delete_network
    \/ delete_network_subnet
    \/ delete_network_firewall
    \/ delete_network_network
    \/ delete_network_return

SpecNetDelete == InitNetDelete /\ [][NextNetDelete]_vars

\* the methods that create several resources in one call
NextCompose ==
    \/ OperationCompletes
    \/ DiskReady
    \/ _wait_for_operation
    \/ create_cluster
    \/ create_disk
    \/ create_disk_ready
    \/ create_firewall
    \/ create_insert
    \/ create_network
    \/ create_network_subnet
    \/ create_network_firewall
    \/ create_loadbalancer_internal
    \/ create_loadbalancer_vm
    \/ create_loadbalancer_health
    \/ create_loadbalancer_group
    \/ create_loadbalancer_backend
    \/ create_loadbalancer_address
    \/ create_loadbalancer_rule
    \/ create_loadbalancer_firewall
    \/ create_loadbalancer_dns

SpecCompose == InitLbCreate /\ [][NextCompose]_vars

\* create with its DNS reservation, while the backend starts the instance
NextCreateDns ==
    \/ InstanceRuns
    \/ create_dns
    \/ create_disk
    \/ create_firewall
    \/ create_insert
    \/ create_return
    \/ reserve_dns_internalip
    \/ reserve_dns_address
    \/ reserve_dns_ip
    \/ reserve_dns_changes

SpecCreateDns == Init /\ [][NextCreateDns]_vars

\* three instances, stopped or running; vm1 has a data disk, which may be gone
InitList ==
    /\ \E stopped \in SUBSET DnsVMNames :
          instances = [n \in DnsVMNames |->
                         [NewInstance(machineTypes(e2_small), NoMetadata,
                                      IF n = vm1 THEN 2 ELSE 1)
                            EXCEPT !.status = IF n \in stopped THEN "TERMINATED"
                                              ELSE "RUNNING"]]
    /\ disks \in {Nothing, (diskname(vm1, 1) :> "READY")}
    /\ networks = {default}
    /\ autoCreateSubnetworks = {default}
    /\ subnets = (sub1 :> [az |-> project, network |-> default])
    /\ firewalls = {}
    /\ resources = Nothing
    /\ zones = {zone_x}
    /\ records = {}
    /\ buckets = Nothing
    /\ Constructed

NextList ==
    \/ InstanceRuns
    \/ start
    \/ list_

SpecList == InitList /\ [][NextList]_vars

\* the nodes of a cluster are created one after the other
NextKube ==
    \/ OperationCompletes
    \/ _wait_for_operation
    \/ create_kube
    \/ create_disk
    \/ create_firewall
    \/ create_insert

SpecKube == Init /\ [][NextKube]_vars

\* create with its data disks, and add_disk on the instance it made
NextDisks ==
    \/ OperationCompletes
    \/ DiskReady
    \/ create
    \/ create_disk
    \/ create_disk_ready
    \/ create_firewall
    \/ create_insert
    \/ add_disk
    \/ add_disk_ready

SpecDisks == Init /\ [][NextDisks]_vars

\* a forwarding rule named after the load balancer lb and a port
lb_80 == lb1 \o <<"-", "8", "0">>

\* the project with the load balancer lb: its forwarding rule with its address,
\* backend service and health check, or two forwarding rules with the instance
\* group
LbDeleteWorlds ==
    {[rules |-> {lb1}, kinds |-> {"addresses", "regionBackendServices", "healthChecks"}],
     [rules |-> {lb1, lb_80}, kinds |-> {"instanceGroups"}]}

InitLbDelete ==
    /\ instances = Nothing
    /\ disks = Nothing
    /\ networks = {default}
    /\ autoCreateSubnetworks = {default}
    /\ subnets = (sub1 :> [az |-> project, network |-> default])
    /\ firewalls = {}
    /\ \E world \in LbDeleteWorlds :
          resources = [k \in {<<"forwardingRules", r>> : r \in world.rules}
                             \cup {<<kind, lb1>> : kind \in world.kinds} |->
                          Resource(None, None)]
    /\ zones = {zone_x}
    /\ records = {}
    /\ buckets = Nothing
    /\ Constructed

SpecLbDelete == InitLbDelete /\ [][NextLb]_vars

\* create_loadbalancer for vms of which only the second sits on a subnet of the
\* host project
NextLbMixed ==
    \/ OperationCompletes
    \/ _wait_for_operation
    \/ create_loadbalancer_mixed
    \/ create_loadbalancer_vm
    \/ create_loadbalancer_health
    \/ create_loadbalancer_group
    \/ create_loadbalancer_backend
    \/ create_loadbalancer_address
    \/ create_loadbalancer_rule
    \/ create_loadbalancer_firewall
    \/ create_loadbalancer_dns

SpecLbMixed == InitLbCreate /\ [][NextLbMixed]_vars

\* the records of the zone x: those of vm1, of two instances whose names hold
\* "vm1", an alias of one of them, and a service record that answers with two
\* of them
ARecord(name, address) ==
    [zone |-> <<"x">>, name |-> name \o <<".", "x", ".">>, type |-> "A",
     rrdatas |-> <<address>>]

xvm1 == <<"x">> \o vm1
vm10 == vm1 \o <<"0">>

ZoneRecords ==
    {ARecord(vm1, ip1), ARecord(xvm1, ip2), ARecord(vm10, ip2),
     [zone |-> <<"x">>, name |-> www \o <<".", "x", ".">>, type |-> "CNAME",
      rrdatas |-> <<vm10 \o <<".", "x", ".">>>>],
     [zone |-> <<"x">>, name |-> <<"_", "s", ".", "x", ".">>, type |-> "SRV",
      rrdatas |-> <<vm1 \o <<".", "x", ".">>, vm10 \o <<".", "x", ".">>>>]}

InitDnsDelete ==
    /\ instances = Nothing
    /\ disks = Nothing
    /\ networks = {default}
    /\ autoCreateSubnetworks = {default}
    /\ subnets = (sub1 :> [az |-> project, network |-> default])
    /\ firewalls = {}
    /\ resources = Nothing
    /\ zones = {zone_x}
    /\ records \in SUBSET ZoneRecords
    /\ buckets = Nothing
    /\ Constructed

NextDnsDelete == delete_dns

SpecDnsDelete == InitDnsDelete /\ [][NextDnsDelete]_vars

\* the cluster k with two nodes, both labelled with it, and its firewall rule
InitKubeDelete ==
    /\ instances =
          [n \in {kctl, knode} |->
              [NewInstance(machineTypes(e2_small),
                           Labels([kubetype |-> generic, kube |-> kube1,
                                   domain |-> None, dnsclient |-> None]), 1)
                 EXCEPT !.status = "RUNNING", !.networkIP = ip2, !.natIP = ip1]]
    /\ disks = Nothing
    /\ networks = {default}
    /\ autoCreateSubnetworks = {default}
    /\ subnets = (sub1 :> [az |-> project, network |-> default])
    /\ firewalls = {kube1}
    /\ resources = Nothing
    /\ zones = {zone_x}
    /\ records = {}
    /\ buckets = Nothing
    /\ Constructed

NextKubeDelete ==
    \/ OperationCompletes
    \/ InstanceGone
    \/ _wait_for_operation
    \/ delete
    \/ delete_return

SpecKubeDelete == InitKubeDelete /\ [][NextKubeDelete]_vars

\* the project with the zones x and a-b.x, where vm1 is created with its record
\* and deleted
InitRoundTrip ==
    /\ instances = Nothing
    /\ disks = Nothing
    /\ networks = {default}
    /\ autoCreateSubnetworks = {default}
    /\ subnets = (sub1 :> [az |-> project, network |-> default])
    /\ firewalls = {}
    /\ resources = Nothing
    /\ zones = {zone_x, zone_a_b_x}
    /\ records = {}
    /\ buckets = Nothing
    /\ Constructed

NextRoundTrip ==
    \/ InstanceRuns
    \/ InstanceGone
    \/ create_label
    \/ create_disk
    \/ create_firewall
    \/ create_insert
    \/ create_return
    \/ reserve_dns_address
    \/ reserve_dns_ip
    \/ reserve_dns_changes
    \/ delete

SpecRoundTrip == InitRoundTrip /\ [][NextRoundTrip]_vars

\* ------------------------------------------------------------------ claims
\* the step that enters a public method
Entered == pc = "idle" /\ ncalls' = ncalls + 1

\* C1: when a public mutating method returns success, none of the operations it
\* issued is still pending on the backend.
C1_NoSuccessWhilePending ==
    (pc = "idle" /\ result = Success) =>
        \A i \in 1..Len(calls) : calls[i].status # "RUNNING"

\* C2: the waiter never sleeps more than 60 time units in total.
C2_SleepsAtMostBudget == w.slept <= 60

\* C3: an error payload embedded in a poll response is only logged: the waiter
\* keeps polling until the operation is DONE or the budget is exceeded, then
\* returns to its caller, which resumes at its next step; the public method
\* neither fails nor raises because of it.
C3_ErrorOnlyLogged ==
    [][(pc = "_wait_for_operation" /\ (w.logged \/ w'.logged)) =>
          /\ pc' \in {"_wait_for_operation", w.ret}
          /\ pc' # pc => /\ w.done \/ w.timeout > 60
                         /\ w'.returned = None
          /\ result' = result
          /\ Len(calls') = Len(calls)
          /\ UNCHANGED <<backend, call, locals, rd>>]_vars

\* the waiter got an error payload for a running operation and polled again
C3_Witness ==
    /\ pc = "_wait_for_operation"
    /\ w.logged
    /\ ~w.done
    /\ w.polls >= 2
    /\ calls[w.operation].status = "RUNNING"

\* C4: the return of the waiter is the same whether the operation was DONE or
\* the budget was exceeded: it returns None to the same place of its caller and
\* leaves no trace of which of the two happened.
C4_TimeoutReturnsAsDone ==
    [][(pc = "_wait_for_operation" /\ pc' # pc) =>
          /\ pc' = w.ret
          /\ w' = [NoWait EXCEPT !.returned = None, !.waited = w.operation]
          /\ UNCHANGED <<backend, call, locals, rd, calls, result>>]_vars

\* create_network goes on to its firewall rule after a wait that gave up: the
\* operation it waited for is still running
C4_Witness ==
    /\ pc = "create_network_firewall"
    /\ w.returned = None
    /\ calls[Len(calls)].status = "RUNNING"

\* C5: none of the bounded wait loops iterates forever (the waiter, the disk
\* readiness loops of create and add_disk, the address loops of reserve_dns
\* and the loop of delete_loadbalancer on the forwarding rule): a public
\* method that is running, in a loop or elsewhere, returns.
C5_LoopsTerminate == (pc # "idle") ~> (pc = "idle")

\* the disk of create never got ready and the loop is out of budget
C5_Witness ==
    /\ pc = "create_disk_ready"
    /\ locals.timeout > 60
    /\ disks[diskname(args.name, locals.index)] = "CREATING"

C7_UnresolvedNetFails ==
    [][(/\ Entered
        /\ op' = "create"
        /\ \E i \in 1..Len(args'.nets) :
              /\ args'.nets[i].name \notin DOMAIN subnets
              /\ args'.nets[i].name \notin networks) =>
          /\ pc' = "idle"
          /\ result'.result = "failure"
          /\ calls' = <<>>
          /\ UNCHANGED backend]_vars

\* the second entry does not resolve, and two data disks were requested
C7_Witness ==
    /\ pc = "idle"
    /\ op = "create"
    /\ result = Failure(<<"not in subnets nor in networks">>)
    /\ Len(args.nets) = 2
    /\ args.nets[1].name = default
    /\ Len(args.disks) = 2
    /\ calls = <<>>
    /\ disks = Nothing

\* C8: create of a new name with no flavor fails on the shape, before any
\* mutation, exactly when numcpus is neither 1 nor even or memory is neither
\* 512 nor a multiple of 1024.
C8_ShapeCheck ==
    [][(/\ Entered
        /\ op' = "create"
        /\ args'.flavor = None
        /\ args'.name \notin DOMAIN instances) =>
          LET cpus == args'.numcpus
              memory == args'.memory
              odd == cpus # 1 /\ cpus % 2 # 0
              ragged == memory # 512 /\ memory % 1024 # 0
              refused == /\ pc' = "idle"
                         /\ result'.result = "failure"
                         /\ result'.reason \in {<<"Number of cpus is not even">>,
                                                <<"Memory is not multiple of 1024">>}
          IN  /\ (odd \/ ragged) <=> refused
              /\ refused => calls' = <<>> /\ UNCHANGED backend]_vars

\* an even number of cpus with a memory that is no multiple of 1024
C8_Witness ==
    /\ pc = "idle"
    /\ op = "create"
    /\ args.flavor = None
    /\ args.numcpus = 2
    /\ args.memory = 1536
    /\ result = Failure(<<"Memory is not multiple of 1024">>)
    /\ calls = <<>>

\* C9 (as stated): with no flavor, the machine type create submits is
\* custom-<cpus>-<memory>, the memory raised to 2048 when cpus > 1 and memory <
\* 2048.
C9_CustomMachineType ==
    \A i \in 1..Len(calls) :
        (op = "create" /\ args.flavor = None /\ calls[i].api = "instances.insert") =>
            calls[i].target.machineType =
                <<"zones", "/", "zone", "/", "machineTypes", "/">> \o custom
                \o <<"-">> \o Digits(args.numcpus) \o <<"-">>
                \o Digits(IF args.numcpus > 1 /\ args.memory < 2048
                          THEN 2048 ELSE args.memory)

\* C9 (amended): ... except that the machine type is f1-micro when that memory
\* is below 921.6, which takes at most one cpu and a memory of 512 or 0.
C9_CustomOrMicro ==
    \A i \in 1..Len(calls) :
        (op = "create" /\ args.flavor = None /\ calls[i].api = "instances.insert") =>
            LET memory == IF args.numcpus > 1 /\ args.memory < 2048
                          THEN 2048 ELSE args.memory
            IN  calls[i].target.machineType =
                    <<"zones", "/", "zone", "/", "machineTypes", "/">>
                    \o (IF args.numcpus <= 1 /\ memory \in {0, 512}
                        THEN <<"f", "1", "-", "m", "i", "c", "r", "o">>
                        ELSE custom \o <<"-">> \o Digits(args.numcpus) \o <<"-">>
                             \o Digits(memory))

\* two cpus with 1024 of memory were submitted as custom-2-2048
C9_Witness ==
    /\ op = "create"
    /\ args.flavor = None
    /\ args.numcpus = 2
    /\ args.memory = 1024
    /\ calls # <<>>
    /\ calls[Len(calls)].api = "instances.insert"
    /\ calls[Len(calls)].status = "RUNNING"
    /\ basename(calls[Len(calls)].target.machineType) = custom_2_2048

\* C10: update_flavor, update_memory and update_cpus of an instance that is
\* RUNNING or STOPPING fail, and issue neither setMachineType nor any other
\* mutation.
C10_NoResizeWhileUp ==
    [][(/\ Entered
        /\ op' \in {"update_flavor", "update_memory", "update_cpus"}
        /\ args'.name \in DOMAIN instances
        /\ instances[args'.name].status \in {"RUNNING", "STOPPING"}) =>
          /\ pc' = "idle"
          /\ result'.result = "failure"
          /\ calls' = <<>>
          /\ UNCHANGED backend]_vars

C10_Witness ==
    /\ pc = "idle"
    /\ op = "update_cpus"
    /\ args.name \in DOMAIN instances
    /\ instances[args.name].status = "STOPPING"
    /\ result = Failure(<<"up">>)
    /\ calls = <<>>

\* C11: update_flavor, update_memory and update_cpus of a stopped instance whose
\* shape already is the requested one return success and issue no mutation,
\* whether the caller passes the value as an int or as a str.
C11_NoOpWhenShapeMatches ==
    [][(/\ Entered
        /\ op' \in {"update_flavor", "update_memory", "update_cpus"}
        /\ args'.name \in DOMAIN instances
        /\ instances[args'.name].status = "TERMINATED"
        /\ LET machinetype == basename(instances[args'.name].machineType)
               pieces == Split(machinetype, "-")
           IN  IF op' = "update_flavor" THEN machinetype = args'.flavor
               ELSE /\ Len(pieces) = 3
                    /\ pieces[1] = custom
                    /\ args'.requested.v =
                          IF op' = "update_memory" THEN pieces[3] ELSE pieces[2]) =>
          /\ pc' = "idle"
          /\ result' = Success
          /\ calls' = <<>>
          /\ UNCHANGED backend]_vars

\* C12: a setMachineType is issued only for an instance that is stopped
\* (TERMINATED), and from no other status.
C12_ResizeOnlyWhenStopped ==
    \A i \in 1..Len(calls) :
        calls[i].api = "instances.setMachineType" =>
            instances[calls[i].target.name].status = "TERMINATED"

\* C13: delete, delete_network, delete_subnet and delete_bucket of a target that
\* does not exist return a tagged failure at once, with no fault, no mutation
\* issued and the backend untouched.
C13_MissingTargetFails ==
    [][(/\ Entered
        /\ \/ op' = "delete" /\ args'.name \notin DOMAIN instances
           \/ op' = "delete_network" /\ args'.name \notin networks
           \/ op' = "delete_subnet" /\ args'.name \notin DOMAIN subnets
           \/ op' = "delete_bucket" /\ args'.bucket \notin DOMAIN buckets) =>
         /\ pc' = "idle"
         /\ result'.result = "failure"
         /\ calls' = <<>>
         /\ UNCHANGED backend]_vars

\* C14: whatever a public method returns is a tagged result, success or
\* failure: no fault leaves the method and no untagged value is returned.
C14_TaggedResult ==
    (pc = "idle" /\ ncalls > 0) => result.result \in {"success", "failure"}

\* C15: when create_network returns the failure of a malformed cidr or dual
\* cidr, it has issued no mutation, and the network has not been inserted.
C15_InvalidCidrNoMutation ==
    (/\ pc = "idle"
     /\ op = "create_network"
     /\ result \in {Failure(<<"Invalid Cidr">>), Failure(<<"Invalid Dual Cidr">>)}) =>
       /\ calls = <<>>
       /\ args.name \notin networks

\* the requests the backend rejected were for resources that are not there
OnlyNotFound(issued) ==
    \A i \in 1..Len(issued) :
        issued[i].status = "REJECTED" =>
            \A k \in DOMAIN resources :
                issued[i].api = k[1] \o ".delete" => issued[i].target # k[2]

\* C16: a second delete_loadbalancer in a row for the same name returns success
\* and raises no fault, whatever the first call left behind; here with a
\* backend that rejects a request only when its resource is not there.
C16_SecondDeleteSucceeds ==
    [][(/\ ncalls = 2
        /\ op = "delete_loadbalancer"
        /\ pc # "idle"
        /\ pc' = "idle"
        /\ OnlyNotFound(calls')) => result' = Success]_vars

\* C17: when delete_bucket issues the delete of the bucket, every object it
\* listed has been deleted by an earlier call of it.
C17_ObjectsBeforeBucket ==
    op = "delete_bucket" =>
        \A i \in 1..Len(calls) :
            calls[i].api = "bucket.delete" =>
                \A b \in 1..Len(locals.blobs) :
                    \E j \in 1..(i - 1) :
                        /\ calls[j].api = "blob.delete"
                        /\ calls[j].target = locals.blobs[b]
                        /\ calls[j].status = "DONE"

\* delete_bucket has deleted three objects and then the bucket
C17_Witness ==
    /\ op = "delete_bucket"
    /\ pc = "idle"
    /\ Len(calls) = 4
    /\ calls[4] = Request("bucket.delete", bucket1, TRUE)
    /\ bucket1 \notin DOMAIN buckets

\* the naming convention: whether name carries a cluster (its fragment before
\* the first hyphen is the second label of <name>.<domain>), and the record
\* name, <host>.<cluster>.<domain without the cluster label>. or <name>.<domain>.
Convention(name, domain) ==
    LET labels == Split(name \o <<".">> \o domain, ".")
        fragment == Split(name, "-")[1]
        extracted == fragment = labels[2]
    IN  [extracted |-> extracted,
         entry |-> IF extracted
                   THEN labels[1] \o <<".">> \o fragment \o <<".">>
                        \o Join(SubSeq(labels, 3, Len(labels)), <<".">>) \o <<".">>
                   ELSE name \o <<".">> \o domain \o <<".">>]

\* C18: reserve_dns and delete_dns extract a cluster exactly when the naming
\* convention says so, and the record name they derive from (name, domain) is
\* the one of the convention.
C18_RecordName ==
    op \in {"reserve_dns", "delete_dns"} =>
        LET n == DnsNames(args.name, args.domain)
            c == Convention(args.name, args.domain)
        IN  /\ (n.cluster # None) = c.extracted
            /\ n.entry = c.entry

\* the alias records in the change set target that reserve_dns submitted for
\* its arguments, where the wildcard is the one of the cluster when apps holds
AliasRecords(target, apps) ==
    LET n == DnsNames(args.name, args.domain)
        wildcard == IF apps
                    THEN <<"*", ".", "a", "p", "p", "s", ".">> \o n.cluster
                         \o <<".">> \o n.domain \o <<".">>
                    ELSE <<"*", ".">> \o n.name \o <<".">> \o n.domain \o <<".">>
    IN  \A i \in 1..Len(args.alias) :
            IF args.alias[i] = star
            THEN /\ \E r \in target : r.name = wildcard /\ r.type = "A"
                 /\ \A r \in target : StartsWith(r.name, star) => r.name = wildcard
            ELSE \E r \in target : /\ r.type = "CNAME"
                                   /\ StartsWith(r.name, args.alias[i])
                                   /\ r.rrdatas = <<n.entry>>

\* C19 as stated: the wildcard record is *.apps.<cluster>.<domain>. whenever a
\* cluster was extracted from the name, *.<host>.<domain>. otherwise; another
\* alias gives a CNAME to the record name of the VM.
C19_WildcardOfCluster ==
    op = "reserve_dns" =>
        \A i \in 1..Len(calls) :
            calls[i].api = "changes.create" =>
                AliasRecords(calls[i].target,
                             DnsNames(args.name, args.domain).cluster # None)

\* C19, amended: the wildcard record is *.apps.<cluster>.<domain>. when a
\* cluster was extracted and the host name contains "ctlplane" or "worker",
\* *.<host>.<domain>. otherwise; another alias gives a CNAME to the record name
\* of the VM.
C19_WildcardOfClusterNode ==
    op = "reserve_dns" =>
        \A i \in 1..Len(calls) :
            calls[i].api = "changes.create" =>
                LET n == DnsNames(args.name, args.domain) IN
                AliasRecords(calls[i].target,
                             /\ n.cluster # None
                             /\ \/ Contains(n.name, ctlplane)
                                \/ Contains(n.name, worker))

\* reserve_dns has stored the wildcard record of the cluster k for k-ctlplane-0
C19_Witness ==
    /\ op = "reserve_dns"
    /\ pc = "idle"
    /\ result = Success
    /\ args.name = kctl
    /\ \E r \in records : r.name = <<"*", ".", "a", "p", "p", "s", ".", "k", ".", "x", ".">>
    /\ \E r \in records : r.type = "CNAME"

\* C20: when reserve_dns, given no address, gives up the wait for the address
\* of the instance, it has polled 20 times and slept 100 time units.
C20_GivesUpAfterBudget ==
    (pc = "reserve_dns_changes" /\ rd.ip = None) =>
        /\ rd.polls = 20
        /\ rd.slept = 100

\* C21: when no zone matches the parsed domain, reserve_dns returns a tagged
\* failure and delete_dns returns without a value; neither submits a change
\* set nor issues any other mutation, and the backend is left as it was.
C21_NoZoneNoMutation ==
    [][(/\ Entered
        /\ op' \in {"reserve_dns", "delete_dns"}
        /\ \A z \in zones :
              LET domain == DnsNames(args'.name, args'.domain).domain
              IN  z.dns_name # domain \o <<".">> /\ z.name # domain) =>
         /\ pc' = "idle"
         /\ result' = IF op' = "reserve_dns"
                      THEN Failure(<<"Domain not found">>) ELSE Untagged
         /\ calls' = <<>>
         /\ UNCHANGED backend]_vars

\* reserve_dns has failed for a domain no zone of the project matches
C21_Witness ==
    /\ op = "reserve_dns"
    /\ pc = "idle"
    /\ result = Failure(<<"Domain not found">>)
    /\ zones # {}
    /\ calls = <<>>

\* the change sets the running (or last) call has submitted
Submitted == {i \in 1..Len(calls) : calls[i].api = "changes.create"}

\* C22: a reserve_dns call submits at most one change set; when it returns
\* success it has submitted exactly one, accepted, holding the A record of the
\* VM and one record for each alias; when it fails for a missing zone or for
\* want of an address it has submitted none.
C22_OneChangeSet ==
    op = "reserve_dns" =>
        /\ Cardinality(Submitted) <= 1
        /\ (pc = "idle" /\ result = Success) =>
              /\ Cardinality(Submitted) = 1
              /\ \A i \in Submitted :
                    /\ calls[i].status = "DONE"
                    /\ \E r \in calls[i].target :
                          /\ r.name = DnsNames(args.name, args.domain).entry
                          /\ r.type = "A"
                    /\ Cardinality(calls[i].target) = 1 + Len(args.alias)
        /\ (pc = "idle" /\ result \in {Failure(<<"Domain not found">>), Untagged}) =>
              Submitted = {}

\* reserve_dns has returned success with a change set of three records
C22_Witness ==
    /\ op = "reserve_dns"
    /\ pc = "idle"
    /\ result = Success
    /\ Len(args.alias) = 2
    /\ \E i \in Submitted : Cardinality(calls[i].target) = 3

\* the step of create_loadbalancer a backend call belongs to (0: none of them)
LbStep(api) ==
    CASE api \in {"healthChecks.insert", "regionHealthChecks.insert"} -> 1
      [] api \in {"instanceGroups.insert", "instanceGroups.addInstances"} -> 2
      [] api = "regionBackendServices.insert" -> 3
      [] api = "addresses.insert" -> 4
      [] api = "forwardingRules.insert" -> 5
      [] api = "firewalls.insert" -> 6
      [] api = "changes.create" -> 7
      [] OTHER -> 0

C24_NetworkDeletedLast ==
    [][(/\ op = "delete_network"
        /\ Len(calls') = Len(calls) + 1) =>
         LET new == calls'[Len(calls')]
             issued == {i \in 1..Len(calls) : calls[i].api = "subnetworks.delete"}
         IN  /\ \A i \in 1..Len(calls) : calls[i].api # "networks.delete"
             /\ (calls # <<>> /\ calls[Len(calls)].status # "REJECTED") =>
                    w.waited = Len(calls)
             /\ new.api = "networks.delete" =>
                    /\ args.name \notin autoCreateSubnetworks =>
                          /\ subnetworks(args.name) = {}
                          /\ \A n \in 1..Len(locals.subnetworks) :
                                \E i \in issued :
                                   /\ calls[i].target = locals.subnetworks[n]
                                   /\ calls[i].status # "REJECTED"
                    /\ calls # <<>>
                    /\ calls[Len(calls)].api = "firewalls.delete"
                    /\ calls[Len(calls)].target = allow_ssh(args.name)
             /\ (new.api = "firewalls.delete" /\ new.status = "REJECTED") =>
                    pc' = "delete_network_network"
             /\ (pc' = "idle" /\ result' = Success) =>
                    new.api = "networks.delete" /\ new.status # "REJECTED"]_vars

\* net1 was deleted after its two subnets, its allow-ssh rule being absent
C24_Witness ==
    /\ op = "delete_network"
    /\ pc = "idle"
    /\ result = Success
    /\ Len(calls) = 4
    /\ calls[3].api = "firewalls.delete"
    /\ calls[3].status = "REJECTED"
    /\ calls[4].api = "networks.delete"

\* the resource that an accepted insert created is in the backend
Remains(c) ==
    CASE c.api = "disks.insert" -> c.target \in DOMAIN disks
      [] c.api = "firewalls.insert" -> c.target \in firewalls
      [] c.api = "instances.insert" -> c.target.name \in DOMAIN instances
      [] c.api = "networks.insert" -> c.target \in networks
      [] c.api = "subnetworks.insert" -> c.target \in DOMAIN subnets
      [] c.api = "healthChecks.insert" ->
            <<"healthChecks", c.target>> \in DOMAIN resources
      [] c.api = "regionBackendServices.insert" ->
            <<"regionBackendServices", c.target>> \in DOMAIN resources
      [] c.api = "forwardingRules.insert" ->
            <<"forwardingRules", c.target>> \in DOMAIN resources
      [] OTHER -> FALSE

\* C25: create, create_network and create_loadbalancer issue inserts only,
\* never a delete; whatever the call returns, and a failure in particular,
\* every resource whose insert was accepted is still in the backend.
C25_NoRollback ==
    op \in {"create", "create_network", "create_loadbalancer"} =>
        \A i \in 1..Len(calls) :
           /\ calls[i].api \in {"disks.insert", "firewalls.insert", "instances.insert",
                                "networks.insert", "subnetworks.insert",
                                "healthChecks.insert", "regionBackendServices.insert",
                                "forwardingRules.insert"}
           /\ calls[i].status # "REJECTED" => Remains(calls[i])

\* create failed at the insert of the instance, after the data disk and the
\* firewall rule of the cluster were created
C25_Witness ==
    /\ op = "create"
    /\ pc = "idle"
    /\ result = Failure(<<"str(e)">>)
    /\ Len(calls) = 3
    /\ calls[1].api = "disks.insert" /\ calls[1].target \in DOMAIN disks
    /\ calls[2].api = "firewalls.insert" /\ calls[2].target \in firewalls
    /\ calls[3].status = "REJECTED"

\* the index of the accepted insert of the instance, if any
Inserted ==
    {i \in 1..Len(calls) : calls[i].api = "instances.insert"
                           /\ calls[i].status # "REJECTED"}

\* C26: once create, called with reservedns and a domain, had its instance
\* insert accepted, it issues no delete of the instance, which stays in the
\* backend; and it returns success when reserve_dns found no zone or got no
\* address (no call follows the insert) and when it submitted the records.
C26_SuccessWhateverDns ==
    (op = "create" /\ args.reservedns /\ args.domain # None /\ Inserted # {}) =>
        /\ \A i \in 1..Len(calls) : calls[i].api # "instances.delete"
        /\ args.name \in DOMAIN instances
        /\ (/\ pc = "idle"
            /\ \/ calls[Len(calls)].api = "instances.insert"
               \/ /\ calls[Len(calls)].api = "changes.create"
                  /\ calls[Len(calls)].status = "DONE") =>
              result = Success

\* create returned success though its instance never got an address
C26_Witness ==
    /\ op = "create"
    /\ args.reservedns
    /\ pc = "idle"
    /\ result = Success
    /\ dnszones(DnsNames(args.name, args.domain).domain) # {}
    /\ Inserted = {Len(calls)}
    /\ instances[args.name].natIP = None

\* C27: delete of an existing instance issues the delete of the instance; it
\* has delete_dns remove the records exactly when the instance has a domain
\* label and no dnsclient label; with a kube label it issues the delete of the
\* firewall rule, and returns success whether that delete is accepted or not.
C27_DeleteCleansUp ==
    [][(Entered /\ op' = "delete" /\ args'.name \in DOMAIN instances) =>
         LET labels == instances[args'.name].labels
             cleans == labels.domain # None /\ labels.dnsclient = None
             issued == {calls'[i].api : i \in 1..Len(calls')}
         IN  /\ "instances.delete" \in issued
             /\ records' # records => cleans
             /\ (cleans /\ records # {}) => "changes.create" \in issued
             /\ labels.kube # None =>
                   /\ "firewalls.delete" \in issued
                   /\ pc' = "idle" => result' = Success]_vars

\* C28: the first call that delete issues is the delete of the instance; the
\* calls of delete_dns come after it, and the delete of the firewall rule of
\* the cluster comes last.
C28_InstanceDeletedFirst ==
    [][(Entered /\ op' = "delete" /\ calls' # <<>>) =>
         /\ calls'[1].api = "instances.delete"
         /\ \A i \in 1..Len(calls') :
               /\ calls'[i].api \in {"changes.create", "addresses.delete"} => i > 1
               /\ calls'[i].api = "firewalls.delete" => i = Len(calls')]_vars

\* C29: list returns the record of every instance of the zone whose lookup
\* does not raise and of no other, each once, in the increasing order of the
\* names; an instance whose lookup raises is left out and the listing is
\* returned all the same.
C29_ListSortedSurvivors ==
    [][(Entered /\ op' = "list") =>
         /\ pc' = "idle"
         /\ result'.result = "list"
         /\ {result'.vms[i] : i \in 1..Len(result'.vms)} =
               {Info(n) : n \in {x \in DOMAIN instances : ~Throws(x)}}
         /\ \A i, j \in 1..Len(result'.vms) :
               i < j => Less(result'.vms[i].name, result'.vms[j].name)]_vars

\* the backend listed vm1 first and k-node-0 before k-ctlplane-0; the lookup
\* of vm1 raised
C29_Witness ==
    /\ op = "list"
    /\ pc = "idle"
    /\ locals.instances_items = <<vm1, knode, kctl>>
    /\ Throws(vm1)
    /\ Len(result.vms) = 2
    /\ result.vms[1].name = kctl

\* the lists of the body as a call makes them from its arguments alone
FromArguments ==
    [tags |-> IF Kubed THEN Append(args.tags.items, args.metadata.kube)
              ELSE args.tags.items,
     files |-> IF ~args.cloudinit THEN <<>>
               ELSE IF need_gcp_hack THEN args.files.items \o HackFiles
               ELSE args.files.items]

\* a create that is given its files and its tags submits the lists made from
\* them, whatever the earlier calls left in the default values
GivenListsFromArguments ==
    (op = "create" /\ args.tags.explicit /\ args.files.explicit) =>
        \A i \in 1..Len(calls) :
           calls[i].api = "instances.insert" =>
              /\ calls[i].target.tags = FromArguments.tags
              /\ calls[i].target.files = FromArguments.files

\* C30: the adapter carries nothing from one call to the next: the default
\* values of the arguments of create stay as they were defined, and the tags
\* and the files of the body that create submits are made from the arguments of
\* the call alone, whatever was called before.
C30_BodyFromArguments ==
    /\ defaults = [tags |-> <<>>, files |-> <<>>]
    /\ op = "create" =>
          \A i \in 1..Len(calls) :
             calls[i].api = "instances.insert" =>
                /\ calls[i].target.tags = FromArguments.tags
                /\ calls[i].target.files = FromArguments.files

\* the data disks that create makes for its arguments: every disk but the boot
\* disk made from the image
DataDisks ==
    {diskname(args.name, i) :
        i \in {j \in 0..(Len(args.disks) - 1) : ~(j = 0 /\ args.image # None)}}

\* the step issues the call api
Issues(api) ==
    /\ Len(calls') = Len(calls) + 1
    /\ calls'[Len(calls')].api = api

\* a turn of the wait for a data disk, of create or of add_disk
DiskWait ==
    /\ pc \in {"create_disk_ready", "add_disk_ready"}
    /\ <<pc, locals, result>>' # <<pc, locals, result>>

\* the disk that is waited for
Awaited ==
    IF pc = "create_disk_ready" THEN diskname(args.name, locals.index)
    ELSE locals.diskname

\* C31: a data disk is referenced only once it was seen READY: create issues
\* the instance insert only with every data disk it made READY, add_disk issues
\* attachDisk only for a READY disk, the wait leaves its loop towards the next
\* step only on a READY disk, polls again after a sleep of 5 while the 60 units
\* are not used up, and past them returns the timeout failure with no further
\* call.
C31_ReadyBeforeReferenced ==
    [][/\ (op = "create" /\ Issues("instances.insert")) =>
             \A d \in DataDisks : d \in DOMAIN disks /\ disks[d] = "READY"
       /\ (op = "add_disk" /\ Issues("instances.attachDisk")) =>
             disks[locals.diskname] = "READY"
       /\ (DiskWait /\ locals.timeout > 60) =>
             /\ pc' = "idle"
             /\ result' \in {Failure(<<"timeout waiting for disk to be ready">>),
                             Failure(<<"timeout waiting for new disk to be ready">>)}
             /\ calls' = calls
       /\ (DiskWait /\ locals.timeout <= 60 /\ pc' # pc) => disks[Awaited] = "READY"
       /\ (DiskWait /\ locals.timeout <= 60 /\ disks[Awaited] # "READY") =>
             /\ pc' = pc
             /\ locals'.timeout = locals.timeout + 5
             /\ calls' = calls]_vars

\* create has inserted the instance after the data disk it made and waited for
C31_Witness ==
    /\ op = "create"
    /\ \E i, j \in 1..Len(calls) :
          /\ i < j
          /\ calls[i].api = "disks.insert"
          /\ calls[j].api = "instances.insert"
          /\ calls[j].status # "REJECTED"

\* what of a load balancer hangs on its forwarding rules
Dependents ==
    {"addresses.delete", "regionBackendServices.delete",
     "regionHealthChecks.delete", "healthChecks.delete", "instanceGroups.delete"}

\* the step issues the delete of a dependent
IssuesDependent ==
    \E i \in (Len(calls) + 1)..Len(calls') : calls'[i].api \in Dependents

\* the forwarding rules that delete_loadbalancer has to delete
Matches(name) ==
    {n \in list("forwardingRules") : n = name \/ StartsWith(n, name \o <<"-">>)}

\* C32: delete_loadbalancer issues the delete of the address, the backend
\* service, the health checks or the instance group only when every matching
\* forwarding rule has had its delete accepted and its wait left; the wait for
\* a rule is left only when the rule is not listed any more or after 60 units
\* of 5-unit sleeps, and leaving it on the timeout goes on to the next step
\* with no failure.
C32_DependentsAfterRulesGone ==
    [][(op = "delete_loadbalancer") =>
          /\ IssuesDependent =>
                /\ locals.index > Len(locals.rules)
                /\ \A r \in Matches(locals.name) :
                      \E i \in 1..Len(locals.rules) : locals.rules[i] = r
                /\ \A i \in 1..Len(locals.rules) :
                      \E j \in 1..Len(calls) :
                         /\ calls[j].api = "forwardingRules.delete"
                         /\ calls[j].target = locals.rules[i]
                         /\ calls[j].status # "REJECTED"
          /\ (pc = "delete_loadbalancer_gone" /\ pc' # pc) =>
                /\ \/ locals.rules[locals.index] \notin list("forwardingRules")
                   \/ locals.slept = 60
                /\ pc' = "delete_loadbalancer_rule"
                /\ locals'.index = locals.index + 1
                /\ result' = result
          /\ (pc = "delete_loadbalancer_gone" /\ locals' # locals /\ pc' = pc) =>
                /\ locals.slept < 60
                /\ locals'.slept = locals.slept + 5
                /\ locals.rules[locals.index] \in list("forwardingRules")]_vars

\* the teardown went on after the timeout: it returned success with a dependent
\* deleted while a forwarding rule is still listed
C32_Witness ==
    /\ op = "delete_loadbalancer"
    /\ pc = "idle"
    /\ result = Success
    /\ lb1 \in list("forwardingRules")
    /\ \E i \in 1..Len(calls) :
          calls[i].api = "regionBackendServices.delete" /\ calls[i].status # "REJECTED"

\* the flavors of the catalog, as opposed to the custom machine types
Canonical == {e2_small, f1_micro}

\* C33: update_memory and update_cpus of a stopped instance with a flavor of
\* the catalog return success with no backend call and no change of the
\* backend.
C33_CanonicalFlavorKept ==
    [][(/\ Entered
        /\ op' \in {"update_memory", "update_cpus"}
        /\ args'.name \in DOMAIN instances
        /\ instances[args'.name].status \notin {"RUNNING", "STOPPING"}
        /\ basename(instances[args'.name].machineType) \in Canonical) =>
          /\ pc' = "idle"
          /\ result' = Success
          /\ calls' = <<>>
          /\ UNCHANGED backend]_vars

\* both methods have returned success for the stopped e2-small instance
C33_Witness ==
    /\ op \in {"update_memory", "update_cpus"}
    /\ ncalls = 2
    /\ result = Success
    /\ calls = <<>>
    /\ instances[vm1].status = "TERMINATED"
    /\ basename(instances[vm1].machineType) = e2_small

C35_PreconditionsBeforeMutation ==
    (op = "create_loadbalancer" /\ pc = "idle" /\ result.result = "failure") =>
        calls = <<>>

\* the vm sits on a subnet of the host project
CrossProject(vm) ==
    \E n \in 1..Len(vm_ports(vm)) : subnets[vm_ports(vm)[n]].az = xproject

\* C36: create_loadbalancer inserts the firewall rule of the load balancer
\* exactly when none of its vms sits on a subnet of the host project.
C36_FirewallUnlessCrossProject ==
    [][(pc = "create_loadbalancer_firewall" /\ pc' # pc) =>
          (Issues("firewalls.insert") <=>
              \A i \in 1..Len(args.vms) : ~CrossProject(args.vms[i]))]_vars

\* the members of the instance group that the backend service of the load
\* balancer refers to
Members(name) ==
    LET group == resources[<<"regionBackendServices", name>>].group
    IN  IF <<"instanceGroups", group>> \in DOMAIN resources
        THEN resources[<<"instanceGroups", group>>].members
        ELSE {}

\* C37: when create_loadbalancer has returned success, every vm it was given is
\* a member of the instance group of the backend service, whether the group was
\* made by the call or found through the label of a vm.
C37_EveryVmInGroup ==
    (op = "create_loadbalancer" /\ pc = "idle" /\ result = Success) =>
        \A i \in 1..Len(args.vms) : args.vms[i] \in Members(locals.name)

\* the record is one of the instance: it bears its name, or answers with it
BelongsTo(record, n) ==
    \/ record.name = n.entry
    \/ \E i \in 1..Len(record.rrdatas) : record.rrdatas[i] = n.entry
    \/ /\ n.cluster # None
       /\ EndsWith(n.name, ctlplane \o <<"-", "0">>)
       /\ EndsWith(record.name, <<".">> \o n.cluster \o <<".">> \o n.domain \o <<".">>)

\* C38: the change set that delete_dns submits holds only records of the
\* instance it was called for, each of them once: the record of an instance
\* whose name merely holds the name of the target is not in it.
C38_OnlyRecordsOfTarget ==
    op = "delete_dns" =>
        \A i \in 1..Len(calls) :
           calls[i].api = "changes.create" =>
              \A r \in DOMAIN calls[i].target :
                 /\ BelongsTo(r, DnsNames(args.name, args.domain))
                 /\ calls[i].target[r] = 1

\* C39: the firewall rule of a cluster stays as long as an instance labelled
\* with the cluster is there: the delete of one node of several does not
\* remove it.
C39_RuleKeptWhileNodesRemain ==
    \A n \in DOMAIN instances :
       (instances[n].status = "RUNNING" /\ instances[n].labels.kube # None) =>
          instances[n].labels.kube \in firewalls

\* C40: the domain that delete and dnsinfo read back from the label of an
\* instance is the domain that create was given for it, and delete puts the
\* records that create registered under that domain in its change set.
C40_DomainRoundTrips ==
    [][(/\ Entered
        /\ op = "create"
        /\ op' = "delete"
        /\ args'.name = args.name
        /\ args.name \in DOMAIN instances
        /\ args.metadata.domain # None) =>
          /\ dnsinfo(args.name).domain = args.metadata.domain
          /\ \A r \in records :
                r.name = DnsNames(args.name, args.metadata.domain).entry =>
                   \E i \in 1..Len(calls') :
                      /\ calls'[i].api = "changes.create"
                      /\ r \in DOMAIN calls'[i].target]_vars

====
